---- MODULE Spec2Model ----
(***************************************************************************)
(* Model of the prompt execution engine of local-image-analyst:            *)
(* src/store.ts (the zustand store, runSinglePrompt, handlePromptCompletion,*)
(* runAnalysis) and src/services/api.ts (the streaming decoder).           *)
(*                                                                         *)
(* JavaScript runs one task at a time: every action below is the code that *)
(* runs between two suspension points (await) of one asynchronous call     *)
(* chain ("flow").  A flow whose pc is an internal label is in the middle  *)
(* of its synchronous / microtask continuation and runs before any new     *)
(* external event (user call, network response) is taken.                  *)
(***************************************************************************)
EXTENDS Integers, Sequences, FiniteSets, TLC

\* ---------------------------------------------------------------- bounds
MaxFlows == 2       \* asynchronous call chains started in one behaviour (Spec)
MaxAttempts == 3    \* attempts started for one pair (SpecCancel)
MaxDeltas == 1      \* visible deltas a streamed response delivers
MaxPieces == 4      \* deltas a response text is split into (SpecStream)
MaxEdits == 3       \* edits of the prompt list in one behaviour (SpecForest)

\* ------------------------------------------------------------ basic data
NoId == "none"

ImageIds == {"i1", "i2"}
PromptIds == {"p1", "p2", "p3"}

\* src/types.ts ResultType
Text == "text"
BoundingBox == "bbox"
Score == "score"
Number == "number"
YesNo == "yes/no"

\* src/types.ts Prompt (the fields the engine reads)
P(id, type, parentId, condition, op, val) ==
  [id |-> id, type |-> type, parentId |-> parentId, condition |-> condition,
   scoreConditionOperator |-> op, scoreConditionValue |-> val, text |-> "t0"]

NoPrompt == P(NoId, "none", NoId, "none", "none", 0)

\* ------------------------------------------------- sequences and strings
\* A JavaScript string is modelled as the sequence of its characters.
Range(s) == {s[i] : i \in 1..Len(s)}

\* Array.prototype.slice(0, -1)
DropLast(s) == IF Len(s) = 0 THEN <<>> ELSE SubSeq(s, 1, Len(s) - 1)

Last(s) == s[Len(s)]

LowerChar(c) ==
  CASE c = "Y" -> "y"
    [] c = "E" -> "e"
    [] c = "S" -> "s"
    [] c = "N" -> "n"
    [] c = "O" -> "o"
    [] OTHER -> c

\* String.prototype.toLowerCase
ToLowerCase(s) == [i \in 1..Len(s) |-> LowerChar(s[i])]

\* String.prototype.indexOf, 1-based; 0 when absent
IndexOf(s, sub) ==
  LET hits == {i \in 1..(Len(s) - Len(sub) + 1) : SubSeq(s, i, i + Len(sub) - 1) = sub}
  IN IF hits = {} THEN 0 ELSE CHOOSE i \in hits : \A j \in hits : i <= j

\* String.prototype.includes
Includes(s, sub) == IndexOf(s, sub) # 0

\* String.prototype.startsWith
StartsWith(s, pre) == Len(s) >= Len(pre) /\ SubSeq(s, 1, Len(pre)) = pre

\* the white space String.prototype.trim removes, as far as it occurs here
IsSpace(c) == c \in {" ", "\n"}

RECURSIVE TrimStart(_)
TrimStart(s) ==
  IF s # <<>> /\ IsSpace(Head(s)) THEN TrimStart(Tail(s)) ELSE s

RECURSIVE TrimEnd(_)
TrimEnd(s) ==
  IF s # <<>> /\ IsSpace(Last(s)) THEN TrimEnd(DropLast(s)) ELSE s

\* String.prototype.trim
Trim(s) == TrimEnd(TrimStart(s))

RECURSIVE Concat(_)
Concat(ss) == IF ss = <<>> THEN <<>> ELSE Head(ss) \o Concat(Tail(ss))

\* -------------------------------------------------- results (src/types.ts)
\* AnalysisResult.data: one record shape for every kind of value.
Data(kind, str, num, boxes, items) ==
  [kind |-> kind, str |-> str, num |-> num, boxes |-> boxes, items |-> items]

NullData == Data("null", <<>>, 0, <<>>, <<>>)
StrData(s) == Data("string", s, 0, <<>>, <<>>)
NumData(n) == Data("number", <<>>, n, <<>>, <<>>)
NaNData == Data("NaN", <<>>, 0, <<>>, <<>>)
BoxesData(bs) == Data("boxes", <<>>, 0, bs, <<>>)
ItemsData(it) == Data("items", <<>>, 0, <<>>, it)
\* streamed text: the number of visible deltas appended so far
TextData(n) == Data("text", <<>>, n, <<>>, <<>>)

\* typeof data === 'string'
IsString(d) == d.kind \in {"string", "text"}
\* typeof data === 'number' (NaN is a number)
IsNumber(d) == d.kind \in {"number", "NaN"}
\* Array.isArray(data)
IsArray(d) == d.kind \in {"boxes", "items"}
ArrayLength(d) == IF d.kind = "boxes" THEN Len(d.boxes) ELSE Len(d.items)

\* AnalysisResult.  att: the flow whose attempt last set the entry's status;
\* conv: conversationHistory, one record per turn (q the flow that asked, 0 for
\* the prompt itself; a the number of answer deltas); error: the error field,
\* "message" for the message of the Error caught, "absent" when there is none.
Entry(status, data, att, conv) ==
  [status |-> status, data |-> data, att |-> att, conv |-> conv, error |-> "absent"]

\* the value `undefined` returned by runSinglePrompt
Undefined == Entry("undefined", NullData, 0, <<>>)

Turn(q, a) == [q |-> q, a |-> a]

\* api.ts:47-78  getFullPromptText(prompt): the prompt's text followed by the
\* instruction of its type
FullPromptText(p) == [kind |-> "prompt", text |-> p.text, type |-> p.type, n |-> 0]

\* the question the user typed for the follow-up of flow f
FollowUpQuestion(f) == [kind |-> "followup", text |-> "q", type |-> "none", n |-> f]

\* BboxChildResult
ChildResult(box, resultData) == [parentBox |-> box, resultData |-> resultData]

\* --------------------------------------------------------------- replies
\* What the remote model answers, by prompt type (api.ts fetchAnalysis
\* returns the trimmed content for yes/no, a number or NaN for score/number,
\* the parsed array for bbox).
YesNoReplies == {<<"Y", "e", "s">>, <<"N", "o">>, <<"o", "Y", "E", "S">>}
ScoreReplies == {NumData(0), NumData(1), NumData(2), NaNData}
BoxReplies == {<<>>, <<"b1">>, <<"b1", "b2">>}

\* The response to a per-object call (api.ts:298-307): ok is response.ok (FALSE
\* also stands for a transport failure), finish is choices[0].finish_reason,
\* content the coerced content.
ChildResponse(ok, finish, content) == [ok |-> ok, finish |-> finish, content |-> content]
ChildReplies ==
  {ChildResponse(TRUE, "stop", "v"), ChildResponse(TRUE, "stop", "w"),
   ChildResponse(FALSE, "none", "")}
NoChildResponse == ChildResponse(FALSE, "pending", "")
TruncatedChildReplies == {ChildResponse(TRUE, "length", "cut")}

Replies(type) ==
  CASE type = YesNo -> {StrData(s) : s \in YesNoReplies}
    [] type = Score -> ScoreReplies
    [] type = Number -> {NumData(1)}
    [] type = BoundingBox -> {BoxesData(b) : b \in BoxReplies}
    [] OTHER -> {NullData}


\* ------------------------------------------------------------------ state
VARIABLES
  prompts,              \* store.ts:33  AppState.prompts
  images,               \* store.ts:27  ids of AppState.images, in order
  selectedImageId,      \* store.ts:28
  results,              \* store.ts:36  image id -> prompt id -> history
  imageBase64s,         \* store.ts:29  the image ids that have a cached data URI
  abortControllers,     \* store.ts:43  abortKey -> controller, 0 if none
  aborted,              \* the controllers whose abort() has been called
  nctl,                 \* controllers created so far
  runningSinglePrompts, \* store.ts:42
  isAnalyzing,          \* store.ts:40
  analysisProgress,     \* store.ts:41  null ("none") or {current, total}
  flows,                \* the asynchronous call chains, in order of creation
  nreq,                 \* requests issued to the model endpoint so far
  calls,                \* store actions invoked by the caller so far
  settings,             \* store.ts:49-53  endpoint, model name, key, max tokens, temperature
  callCap,              \* the bound on calls of the specification being checked
  overlap,              \* whether the caller invokes an action while a run is active
  pendLog,              \* per runPendingAnalysis call: nreq and results at the call
  inflight,             \* per image: requests issued and not yet resolved or failed
  analysisStates,       \* store.ts:30  per image: idle, loading, success or error
  abortNamed,           \* whether the platform rejects an aborted fetch with an
                        \* error named 'AbortError' (it rejects with the reason
                        \* passed to abort() where the Fetch standard's abort
                        \* reason is implemented)
  deltas,               \* decoder: the content deltas of the response
  nread,                \* decoder: how many of them have been read
  parsingState,         \* api.ts:152
  accumulatedContent,   \* api.ts:153
  emitted               \* decoder: the contents yielded so far

engineVars == <<prompts, images, selectedImageId, results, imageBase64s,
                abortControllers, aborted, nctl, runningSinglePrompts,
                isAnalyzing, analysisProgress, flows, nreq, calls, callCap, settings, overlap, pendLog, abortNamed, analysisStates, inflight>>
decoderVars == <<deltas, nread, parsingState, accumulatedContent, emitted>>
vars == <<prompts, images, selectedImageId, results, imageBase64s,
          abortControllers, aborted, nctl, runningSinglePrompts, isAnalyzing, analysisProgress,
          flows, nreq, calls, callCap, settings, overlap, pendLog, abortNamed, analysisStates,
          inflight,
          deltas, nread, parsingState, accumulatedContent, emitted>>

\* The characters of the ids.  An image id is `${file.name}-${file.lastModified}`
\* (store.ts:132): i1 is the file "a" modified at 5, i2 the file "a-5" modified
\* at 7.  A prompt id is any string of a loaded prompt set (store.ts:296).
IdText(id) ==
  CASE id = "i1" -> <<"a", "-", "5">>
    [] id = "i2" -> <<"a", "-", "5", "-", "7">>
    [] id = "p1" -> <<"1">>
    [] id = "p2" -> <<"2">>
    [] id = "p3" -> <<"7", "-", "1">>

\* store.ts:514  abortKey = `${imageId}-${prompt.id}`
AbortKey(img, pid) == IdText(img) \o <<"-">> \o IdText(pid)

Keys == {AbortKey(img, pid) : img \in ImageIds, pid \in PromptIds}

\* ------------------------------------------------------------ prompt tree
IsTopLevel(p) == p.parentId = NoId

\* store.ts:364-373 findDescendants
RECURSIVE Descendants(_, _)
Descendants(ps, id) ==
  LET direct == {p.id : p \in {q \in Range(ps) : q.parentId = id}}
  IN direct \cup UNION {Descendants(ps, k) : k \in direct}

\* prompts.find(p => p.id === id)
FindPrompt(ps, id) ==
  LET hits == {i \in 1..Len(ps) : ps[i].id = id}
  IN IF hits = {} THEN NoPrompt
     ELSE ps[CHOOSE i \in hits : \A j \in hits : i <= j]

\* ------------------------------------------------------------------ flows
InternalPcs == {"rsp", "issue", "ret", "hpc", "kids", "fan", "fandone",
                "hpcdone", "next", "task", "img", "itask"}

\* store.ts:120-124  the settings a fresh store holds; the settings a saved
\* form replaces them with
DefaultSettings == "default"
SavedSettings == "saved"
Settings == {DefaultSettings, SavedSettings}

\* variant of RequestConfig that reads the store when the request is issued
RequestConfigCurrent(captured, current) == current

\* store.ts:596-598, 652, 714  the config a request is issued with: the values
\* the function destructured from the state when it was called
RequestConfig(captured, current) == captured

Flow(kind, img, pc, p) ==
  [kind |-> kind,      \* "one" | "pending" | "all" | "followup"
   img |-> img,        \* imageId of the current runSinglePrompt / handlePromptCompletion
   sel |-> img,        \* the image the operation was invoked for (history)
   pc |-> pc,
   top |-> p,          \* the prompt whose completion is handled
   cur |-> p,          \* the prompt of the current runSinglePrompt / fan-out
   stage |-> "top",    \* "top": called by a run; "child": by handlePromptCompletion
   ctl |-> 0,          \* controller of the current runSinglePrompt
   fu |-> kind = "followup",  \* isFollowUp
   conv |-> <<>>,      \* conversationHistory argument
   res |-> Undefined,  \* value returned by the last runSinglePrompt
   result |-> Undefined, \* the result argument of handlePromptCompletion
   ps |-> <<>>,        \* prompts as read when the operation started
   kids |-> <<>>,      \* childrenToRun not yet run
   tasks |-> <<>>,     \* taskList / independentPrompts not yet run
   imgs |-> <<>>,      \* imageIds not yet processed
   total |-> 0,        \* taskList.length / imageIds.length of a batch run
   cfg |-> DefaultSettings,   \* the settings runSinglePrompt read (store.ts:512)
   hcfg |-> DefaultSettings,  \* the settings handlePromptCompletion read (store.ts:683)
   req |-> DefaultSettings,   \* the settings the last request issued carried (history)
   nd |-> 0,           \* deltas received by the current stream
   boxes |-> <<>>,     \* fan-out: the parent's detections
   fpend |-> {},       \* fan-out: indices of requests not yet resolved
   items |-> <<>>,     \* fan-out: resolvedChildResults
   resps |-> <<>>,     \* fan-out: the response each request received (history)
   evPend |-> {},      \* prompts with an empty history when completion was handled
   evReq |-> 0,        \* nreq when completion was handled
   ran |-> <<>>,       \* children started by the current handlePromptCompletion
   imageHadError |-> FALSE,  \* store.ts:744
   over |-> "none",    \* pc of the attempt this attempt's start aborted
   snap |-> [i \in ImageIds |-> [pid \in PromptIds |-> <<>>]]]
                       \* the result histories when the run was invoked

Busy == \E f \in 1..Len(flows) : flows[f].pc \in InternalPcs

AbortPending(f) == flows[f].pc = "fetch" /\ flows[f].ctl \in aborted

\* no synchronous code or microtask is left to run
Quiescent == ~Busy /\ ~(\E f \in 1..Len(flows) : AbortPending(f))

AllDone == \A f \in 1..Len(flows) : flows[f].pc = "done"

\* the caller may invoke a store action now
CallAllowed == Quiescent /\ calls < callCap /\ (overlap \/ AllDone)

Hist(img, pid) == results[img][pid]

\* the updater prev => prev.slice(0, -1).concat(e)   (store.ts:659, 666)
ReplaceLast(h, e) == DropLast(h) \o <<e>>

\* the updater prev => [...prev, e]   (store.ts:592)
AppendEntry(h, e) == Append(h, e)

\* variant of ClearDescendants that clears the direct children only
ClearChildren(res, ps, img, id) ==
  [res EXCEPT ![img] =
     [pid \in PromptIds |->
        IF \E q \in Range(ps) : q.id = pid /\ q.parentId = id THEN <<>> ELSE @[pid]]]

\* store.ts:376-399: delete the histories of the descendants for one image
ClearDescendants(res, ps, img, id) ==
  [res EXCEPT ![img] =
     [pid \in PromptIds |-> IF pid \in Descendants(ps, id) THEN <<>> ELSE @[pid]]]

\* ------------------------------------------- condition-resolution rules
\* variant of ConditionMet that does not lower-case the answer
ConditionMetCaseSensitive(data) ==
  IF Includes(Trim(data.str), <<"y", "e", "s">>) THEN "yes" ELSE "no"

\* store.ts:687-688  conditionMet
ConditionMet(data) ==
  IF Includes(Trim(ToLowerCase(data.str)), <<"y", "e", "s">>) THEN "yes" ELSE "no"

\* variant of ScoreTriggered whose comparisons include equality
ScoreTriggeredInclusive(child, data) ==
  LET op == child.scoreConditionOperator
      val == child.scoreConditionValue
  IN /\ op # "none"
     /\ data.kind = "number"
     /\ \/ op = "above" /\ data.num >= val
        \/ op = "below" /\ data.num <= val

\* store.ts:697-703  the score trigger of one child
ScoreTriggered(child, data) ==
  LET op == child.scoreConditionOperator
      val == child.scoreConditionValue
  IN /\ op # "none"
     /\ data.kind = "number"     \* every comparison with NaN is false
     /\ \/ op = "above" /\ data.num > val
        \/ op = "below" /\ data.num < val

\* (!currentImageResults()[c.id] || currentImageResults()[c.id].length === 0)
HasNoHistory(imgres, c) == imgres[c.id] = <<>>

\* store.ts:689  childrenToRun of a yes/no parent
YesNoChildren(ps, prompt, result, imgres) ==
  LET met == ConditionMet(result.data)
      Keep(c) == c.parentId = prompt.id /\ c.condition = met /\ HasNoHistory(imgres, c)
  IN SelectSeq(ps, Keep)

\* store.ts:695-704  childrenToRun of a score parent
ScoreChildren(ps, prompt, result, imgres) ==
  LET Keep(c) == /\ c.parentId = prompt.id
                 /\ HasNoHistory(imgres, c)
                 /\ ScoreTriggered(c, result.data)
  IN SelectSeq(ps, Keep)

\* store.ts:710  childrenToRun of a bounding-box parent
BboxChildren(ps, prompt, imgres) ==
  LET Keep(c) == c.parentId = prompt.id /\ HasNoHistory(imgres, c)
  IN SelectSeq(ps, Keep)

\* variant of CompletionBranch that looks at the parent's type only
CompletionBranchByType(prompt, result) ==
  CASE prompt.type = YesNo -> "yesno"
    [] prompt.type = Score -> "score"
    [] prompt.type = BoundingBox -> "bbox"
    [] OTHER -> "none"

\* store.ts:686, 693, 708  which branch of handlePromptCompletion is taken
CompletionBranch(prompt, result) ==
  CASE prompt.type = YesNo /\ result.status = "success" /\ IsString(result.data)
         -> "yesno"
    [] prompt.type = Score /\ result.status = "success" /\ IsNumber(result.data)
         -> "score"
    [] /\ prompt.type = BoundingBox /\ result.status = "success"
       /\ IsArray(result.data) /\ ArrayLength(result.data) > 0
         -> "bbox"
    [] OTHER -> "none"

\* ------------------------------------------------------ runPendingAnalysis
RECURSIVE DedupById(_, _)
DedupById(ps, seen) ==
  IF ps = <<>> THEN <<>>
  ELSE IF Head(ps).id \in seen THEN DedupById(Tail(ps), seen)
       ELSE <<Head(ps)>> \o DedupById(Tail(ps), seen \cup {Head(ps).id})

\* store.ts:416  allPendingPrompts
AllPendingPrompts(ps, imgres) ==
  LET Pending(p) == imgres[p.id] = <<>>
  IN SelectSeq(ps, Pending)

\* store.ts:426-439  the parents re-queued for their pending children
RECURSIVE RequeuedParents(_, _, _)
RequeuedParents(kids, ps, imgres) ==
  IF kids = <<>> THEN <<>>
  ELSE LET parentPrompt == FindPrompt(ps, Head(kids).parentId)
           h == IF parentPrompt = NoPrompt THEN <<>> ELSE imgres[parentPrompt.id]
           rest == RequeuedParents(Tail(kids), ps, imgres)
       IN IF parentPrompt # NoPrompt /\ h # <<>> /\ Last(h).status = "success"
          THEN <<parentPrompt>> \o rest
          ELSE rest

\* store.ts:420-444  taskList: a Map keyed by prompt id, in insertion order
TasksToRun(ps, imgres) ==
  LET pend == AllPendingPrompts(ps, imgres)
      IsTop(p) == IsTopLevel(p)
      IsChild(p) == ~IsTopLevel(p)
  IN DedupById(SelectSeq(pend, IsTop)
                 \o RequeuedParents(SelectSeq(pend, IsChild), ps, imgres), {})

\* ------------------------------------------------------------ deletePrompt
\* variant of IdsToDelete that takes every descendant
IdsToDeleteWithDescendants(ps, id) == {id} \cup Descendants(ps, id)

\* store.ts:240, 246  idsToDelete
IdsToDelete(ps, id) == {id} \cup {p.id : p \in {q \in Range(ps) : q.parentId = id}}

\* store.ts:249  newPrompts
PromptsAfterDelete(ps, id) ==
  LET Keep(p) == p.id \notin IdsToDelete(ps, id)
  IN SelectSeq(ps, Keep)

\* store.ts:250-268  newResults
ResultsAfterDelete(res, ps, id) ==
  [img \in ImageIds |->
     [pid \in PromptIds |-> IF pid \in IdsToDelete(ps, id) THEN <<>> ELSE res[img][pid]]]

\* ------------------------------------------------------------ user calls
\* store.ts:360-407  runSingleAnalysisFlow(prompt), up to the call of
\* runSinglePrompt (which starts in the same task: pc "rsp")
RunSingleAnalysisFlow(p) ==
  /\ CallAllowed
  /\ selectedImageId # NoId
  /\ calls' = calls + 1
  /\ results' = ClearDescendants(results, prompts, selectedImageId, p.id)
  /\ flows' = Append(flows, Flow("one", selectedImageId, "rsp", p))
  /\ UNCHANGED <<prompts, images, selectedImageId, imageBase64s, abortControllers,
                 aborted, nctl, runningSinglePrompts, isAnalyzing, analysisProgress, nreq, callCap, settings, overlap,
                 pendLog, abortNamed, analysisStates, inflight>>
  /\ UNCHANGED decoderVars

\* store.ts:409-457  runPendingAnalysis, up to the first iteration of runTasks
\* store.ts:41  analysisProgress: { current, total }
Progress(current, total) == [current |-> current, total |-> total]

\* store.ts:114  analysisProgress: null
NoProgress == Progress(-1, -1)

RunPendingAnalysis ==
  /\ CallAllowed
  /\ selectedImageId # NoId
  /\ calls' = calls + 1
  /\ pendLog' = Append(pendLog, [nreq |-> nreq, results |-> results])
  /\ LET taskList == TasksToRun(prompts, results[selectedImageId])
     IN IF taskList = <<>>
        THEN UNCHANGED <<flows, isAnalyzing, analysisProgress>>
        ELSE /\ flows' = Append(flows,
                    [Flow("pending", selectedImageId, "task", NoPrompt)
                       EXCEPT !.tasks = taskList, !.total = Len(taskList),
                              !.snap = results])
             /\ isAnalyzing' = TRUE
             /\ analysisProgress' = Progress(1, Len(taskList))
  /\ UNCHANGED <<prompts, images, selectedImageId, results, imageBase64s,
                 abortControllers, aborted, nctl, runningSinglePrompts, nreq,
                 callCap, settings, overlap, abortNamed, analysisStates, inflight>>
  /\ UNCHANGED decoderVars

\* store.ts:459-463, 732-735  runAllImagesAnalysis and the head of runAnalysis
RunAllImagesAnalysis ==
  /\ CallAllowed
  /\ images # <<>>
  /\ calls' = calls + 1
  /\ flows' = Append(flows,
         [Flow("all", NoId, "img", NoPrompt)
            EXCEPT !.ps = prompts, !.imgs = images, !.total = Len(images),
                   !.snap = results])
  /\ isAnalyzing' = TRUE
  /\ analysisProgress' = Progress(0, Len(images))
  /\ UNCHANGED <<prompts, images, selectedImageId, results, imageBase64s,
                 abortControllers, aborted, nctl, runningSinglePrompts, nreq,
                 callCap, settings, overlap, pendLog, abortNamed, analysisStates, inflight>>
  /\ UNCHANGED decoderVars

\* store.ts:465-478  sendFollowUp(promptId, question)
SendFollowUp(promptId) ==
  /\ CallAllowed
  /\ selectedImageId # NoId
  /\ FindPrompt(prompts, promptId) # NoPrompt
  /\ Hist(selectedImageId, promptId) # <<>>
  /\ calls' = calls + 1
  /\ flows' = Append(flows,
         [Flow("followup", selectedImageId, "rsp", FindPrompt(prompts, promptId))
            EXCEPT !.conv = Last(Hist(selectedImageId, promptId)).conv])
  /\ UNCHANGED <<prompts, images, selectedImageId, results, imageBase64s,
                 abortControllers, aborted, nctl, runningSinglePrompts, isAnalyzing, analysisProgress,
                 nreq, callCap, settings, overlap, pendLog, abortNamed, analysisStates, inflight>>
  /\ UNCHANGED decoderVars

\* store.ts:232-236  updatePrompt(id, {text}): the prompt's text is edited
PromptsAfterUpdate(ps, id, text) ==
  [i \in 1..Len(ps) |-> IF ps[i].id = id THEN [ps[i] EXCEPT !.text = text] ELSE ps[i]]

UpdatePrompt(id, text) ==
  /\ CallAllowed
  /\ calls' = calls + 1
  /\ prompts' = PromptsAfterUpdate(prompts, id, text)
  /\ UNCHANGED <<images, selectedImageId, results, imageBase64s, abortControllers,
                 aborted, nctl, runningSinglePrompts, isAnalyzing, analysisProgress, flows, nreq, callCap, settings,
                 overlap, pendLog, abortNamed, analysisStates, inflight>>
  /\ UNCHANGED decoderVars

\* store.ts:189  setSelectedImageId(id)
SetSelectedImageId(id) ==
  /\ CallAllowed
  /\ id # selectedImageId
  /\ calls' = calls + 1
  /\ selectedImageId' = id
  /\ UNCHANGED <<prompts, images, results, imageBase64s, abortControllers, aborted,
                 nctl, runningSinglePrompts, isAnalyzing, analysisProgress, flows, nreq, callCap, settings, overlap,
                 pendLog, abortNamed, analysisStates, inflight>>
  /\ UNCHANGED decoderVars

\* store.ts:238-271  deletePrompt(id); confirmed is the answer of window.confirm
DeletePrompt(id, confirmed) ==
  /\ CallAllowed
  /\ IdsToDelete(prompts, id) = {id} \/ confirmed
  /\ calls' = calls + 1
  /\ prompts' = PromptsAfterDelete(prompts, id)
  /\ results' = ResultsAfterDelete(results, prompts, id)
  /\ UNCHANGED <<images, selectedImageId, imageBase64s, abortControllers, aborted,
                 nctl, runningSinglePrompts, isAnalyzing, analysisProgress, flows, nreq, callCap, settings, overlap,
                 pendLog, abortNamed, analysisStates, inflight>>
  /\ UNCHANGED decoderVars

\* ------------------------------------------------------- runSinglePrompt
Key(fl) == AbortKey(fl.img, fl.cur.id)

\* store.ts:516-518  the controllers aborted when an attempt starts
AbortPrevious(ctls, key) == IF ctls[key] # 0 THEN {ctls[key]} ELSE {}

\* pc of the flow that owns controller c
OwnerPc(c) ==
  LET owners == {g \in 1..Len(flows) : flows[g].ctl = c /\ flows[g].pc \in {"b64", "fetch"}}
  IN IF owners = {} THEN "none" ELSE flows[CHOOSE g \in owners : TRUE].pc

\* store.ts:511-520, 568-573  the start of runSinglePrompt, up to the await of
\* fileToBase64 (skipped when the data URI is cached)
\* store.ts:573  imageBase64s[imageId] || images.find(i => i.id === imageId)!.file
\* can be evaluated: the image is cached or still in the list
ImageAvailable(img) == img \in imageBase64s \/ img \in Range(images)

RspStart(f) ==
  LET fl == flows[f]
      key == Key(fl)
      old == abortControllers[key]
  IN /\ fl.pc = "rsp"
     /\ ImageAvailable(fl.img)
     /\ aborted' = aborted \cup AbortPrevious(abortControllers, key)
     /\ nctl' = nctl + 1
     /\ abortControllers' = [abortControllers EXCEPT ![key] = nctl + 1]
     /\ runningSinglePrompts' =
          IF fl.fu THEN runningSinglePrompts ELSE runningSinglePrompts \cup {fl.cur.id}
     /\ flows' = [flows EXCEPT ![f] =
          [fl EXCEPT !.ctl = nctl + 1,
                     !.cfg = settings,
                     !.pc = IF fl.img \in imageBase64s THEN "issue" ELSE "b64",
                     !.over = IF old = 0 THEN "none" ELSE OwnerPc(old),
                     !.ran = IF fl.stage = "child" THEN Append(@, fl.cur.id) ELSE @]]
     /\ UNCHANGED <<prompts, images, selectedImageId, results, imageBase64s,
                    isAnalyzing, analysisProgress, nreq, calls, callCap, settings, overlap, pendLog, abortNamed, analysisStates, inflight>>
     /\ UNCHANGED decoderVars

\* store.ts:573  fileToBase64 resolves
B64Done(f) ==
  /\ Quiescent
  /\ flows[f].pc = "b64"
  /\ flows' = [flows EXCEPT ![f].pc = "issue"]
  /\ UNCHANGED <<prompts, images, selectedImageId, results, imageBase64s,
                 abortControllers, aborted, nctl, runningSinglePrompts, isAnalyzing, analysisProgress,
                 nreq, calls, callCap, settings, overlap, pendLog, abortNamed, analysisStates, inflight>>
  /\ UNCHANGED decoderVars

\* store.ts:580-589  the follow-up's update of the latest entry
WithFollowUpTurn(h, f) ==
  IF h = <<>> THEN h
  ELSE [h EXCEPT ![Len(h)].conv = Append(@, Turn(FollowUpQuestion(f), 0))]

\* store.ts:591  newResult
LoadingEntry(f) == Entry("loading", NullData, f, <<>>)

\* store.ts:579-593  the history after the attempt has recorded its start
HistoryAtIssue(h, fu, f) ==
  IF fu THEN WithFollowUpTurn(h, f) ELSE AppendEntry(h, LoadingEntry(f))

\* one entry of the messages array of a request
Message(role, content, image) == [role |-> role, content |-> content, image |-> image]

\* api.ts:105-111, 225-231  the multimodal user message
FirstMessage(p) == Message("user", FullPromptText(p), TRUE)

\* api.ts:114-121  conversationHistory.forEach((turn, index) => ...)
RECURSIVE ReplayedTurns(_, _, _)
ReplayedTurns(conv, index, p) ==
  IF conv = <<>> THEN <<>>
  ELSE (IF index = 0 /\ Head(conv).q = FullPromptText(p)
        THEN <<>> ELSE <<Message("user", Head(conv).q, FALSE)>>)
       \o <<Message("assistant", Head(conv).a, FALSE)>>
       \o ReplayedTurns(Tail(conv), index + 1, p)

\* api.ts:105-123  the messages of fetchAnalysisStream
StreamMessages(p, conv, fu, question) ==
  <<FirstMessage(p)>>
    \o (IF fu THEN ReplayedTurns(conv, 0, p) \o <<Message("user", question, FALSE)>>
        ELSE <<>>)

\* store.ts:596-600, 652  the messages of the request of flow f: streamed for a
\* text prompt, single-shot (api.ts:225-231) for every other type
RequestMessages(f) ==
  IF flows[f].cur.type = Text
  THEN StreamMessages(flows[f].cur, flows[f].conv, flows[f].fu, FollowUpQuestion(f))
  ELSE <<FirstMessage(flows[f].cur)>>

\* store.ts:574-599, 652  record the start of the attempt and issue the request
RspIssue(f) ==
  LET fl == flows[f]
  IN /\ fl.pc = "issue"
     /\ imageBase64s' = imageBase64s \cup {fl.img}
     /\ results' = [results EXCEPT ![fl.img][fl.cur.id] = HistoryAtIssue(@, fl.fu, f)]
     /\ nreq' = nreq + 1
     /\ inflight' = [inflight EXCEPT ![fl.img] = @ + 1]
     /\ flows' = [flows EXCEPT ![f] =
          [fl EXCEPT !.pc = "fetch", !.nd = 0,
                     !.req = RequestConfig(fl.cfg, settings)]]
     /\ UNCHANGED <<prompts, images, selectedImageId, abortControllers, aborted,
                    nctl, runningSinglePrompts, isAnalyzing, analysisProgress, calls, callCap, settings, overlap,
                    pendLog, abortNamed, analysisStates>>
     /\ UNCHANGED decoderVars

\* store.ts:668-679  the finally block
RegistryAfterFinally(ctls, key) == [ctls EXCEPT ![key] = 0]

RunningAfterFinally(fl) ==
  IF fl.fu THEN runningSinglePrompts ELSE runningSinglePrompts \ {fl.cur.id}

\* the attempt of flow f ends: history h for its pair, return value r
RspEnds(f, h, r) ==
  LET fl == flows[f]
  IN /\ results' = [results EXCEPT ![fl.img][fl.cur.id] = h]
     /\ abortControllers' = RegistryAfterFinally(abortControllers, Key(fl))
     /\ runningSinglePrompts' = RunningAfterFinally(fl)
     /\ flows' = [flows EXCEPT ![f] = [fl EXCEPT !.pc = "ret", !.res = r]]
     /\ inflight' = [inflight EXCEPT ![fl.img] = @ - 1]
     /\ UNCHANGED <<prompts, images, selectedImageId, imageBase64s, aborted, nctl,
                    isAnalyzing, analysisProgress, nreq, calls, callCap, settings, overlap, pendLog, abortNamed,
                    analysisStates>>
     /\ UNCHANGED decoderVars

\* store.ts:658  successResult
SuccessEntry(f, d) ==
  Entry("success", d, f, <<Turn(FullPromptText(flows[f].cur), 1)>>)

\* store.ts:665  errorResult
ErrorEntry(f) == [Entry("error", NullData, f, <<>>) EXCEPT !.error = "message"]

\* store.ts:665  errorResult when the value caught is the abort reason, a
\* string: it has no message
ReasonErrorEntry(f) == Entry("error", NullData, f, <<>>)

\* store.ts:659  the history after a single-shot success
HistoryAfterSuccess(h, e) == ReplaceLast(h, e)

\* variant of HistoryAfterError that removes the loading entry and records nothing
HistoryAfterErrorDropped(h, e) == DropLast(h)

\* store.ts:666  the history after a failure
HistoryAfterError(h, e) == ReplaceLast(h, e)

\* store.ts:652-660  fetchAnalysis resolves (every type but text)
FetchSuccess(f, d) ==
  LET fl == flows[f]
  IN /\ Quiescent
     /\ fl.pc = "fetch" /\ fl.cur.type # Text
     /\ d \in Replies(fl.cur.type)
     /\ RspEnds(f, HistoryAfterSuccess(Hist(fl.img, fl.cur.id), SuccessEntry(f, d)),
                SuccessEntry(f, d))

\* store.ts:620, 662-667  the request fails (transport, status, truncation,
\* JSON parse): the catch block's error path
FetchError(f) ==
  LET fl == flows[f]
  IN /\ Quiescent
     /\ fl.pc = "fetch"
     /\ RspEnds(f, HistoryAfterError(Hist(fl.img, fl.cur.id), ErrorEntry(f)),
                ErrorEntry(f))

\* store.ts:665  errorResult for the Error "Response was truncated due to
\* token limit." (api.ts:169, 255)
TruncationErrorEntry(f) == [ErrorEntry(f) EXCEPT !.error = "truncated"]

\* api.ts:168-171, 254-256; store.ts:620, 662-667  a response (or a frame of
\* the stream) reports finish_reason "length": the stream stops, the Error is
\* thrown into the catch block
FetchTruncated(f) ==
  LET fl == flows[f]
  IN /\ Quiescent
     /\ fl.pc = "fetch"
     /\ RspEnds(f, HistoryAfterError(Hist(fl.img, fl.cur.id), TruncationErrorEntry(f)),
                TruncationErrorEntry(f))

\* store.ts:511-520, 568-573, 662-679  runSinglePrompt for an image that is
\* neither cached nor in the list: images.find(...) is undefined, reading its
\* file throws inside the try block before any await, and the catch and
\* finally blocks run in the same step
RspNoImage(f) ==
  LET fl == flows[f]
      key == Key(fl)
  IN /\ fl.pc = "rsp"
     /\ ~ImageAvailable(fl.img)
     /\ aborted' = aborted \cup AbortPrevious(abortControllers, key)
     /\ nctl' = nctl + 1
     /\ abortControllers' = RegistryAfterFinally(abortControllers, key)
     /\ runningSinglePrompts' = RunningAfterFinally(fl)
     /\ results' = [results EXCEPT ![fl.img][fl.cur.id] = HistoryAfterError(@, ErrorEntry(f))]
     /\ flows' = [flows EXCEPT ![f] =
          [fl EXCEPT !.ctl = nctl + 1, !.cfg = settings, !.pc = "ret",
                     !.res = ErrorEntry(f),
                     !.over = IF abortControllers[key] = 0 THEN "none"
                              ELSE OwnerPc(abortControllers[key]),
                     !.ran = IF fl.stage = "child" THEN Append(@, fl.cur.id) ELSE @]]
     /\ UNCHANGED <<prompts, images, selectedImageId, imageBase64s, isAnalyzing, analysisProgress, nreq,
                    calls, callCap, settings, overlap, pendLog, abortNamed, analysisStates, inflight>>
     /\ UNCHANGED decoderVars

\* store.ts:308-310  saveSettings; the form can be saved while a run is active
SaveSettings(s) ==
  /\ Quiescent /\ calls < callCap
  /\ s # settings
  /\ calls' = calls + 1
  /\ settings' = s
  /\ UNCHANGED <<prompts, images, selectedImageId, results, imageBase64s,
                 abortControllers, aborted, nctl, runningSinglePrompts, isAnalyzing,
                 analysisProgress, flows, nreq, callCap, overlap, pendLog, abortNamed,
                 analysisStates, inflight>>
  /\ UNCHANGED decoderVars

\* store.ts:171  remainingImages
RemainingImages(imgs, id) == SelectSeq(imgs, LAMBDA i : i # id)

\* store.ts:181  the selection after the removal
SelectionAfterRemove(imgs, sel, id) ==
  IF sel = id
  THEN IF RemainingImages(imgs, id) # <<>> THEN Head(RemainingImages(imgs, id)) ELSE NoId
  ELSE sel

\* store.ts:165-187  removeImage
RemoveImage(id) ==
  /\ CallAllowed
  /\ id \in Range(images)
  /\ calls' = calls + 1
  /\ images' = RemainingImages(images, id)
  /\ selectedImageId' = SelectionAfterRemove(images, selectedImageId, id)
  /\ results' = [results EXCEPT ![id] = [pid \in PromptIds |-> <<>>]]
  /\ imageBase64s' = imageBase64s \ {id}
  /\ analysisStates' = [analysisStates EXCEPT ![id] = "absent"]
  /\ UNCHANGED <<prompts, abortControllers, aborted, nctl, runningSinglePrompts,
                 isAnalyzing, analysisProgress, flows, nreq, callCap, settings, overlap, pendLog, abortNamed,
                 inflight>>
  /\ UNCHANGED decoderVars

\* store.ts:663  (error as Error).name === 'AbortError'
IsAbortError(named) == named

\* store.ts:662-667  the request of an aborted controller rejects
AbortReject(f) ==
  LET fl == flows[f]
  IN /\ ~Busy
     /\ AbortPending(f)
     /\ IF IsAbortError(abortNamed)
        THEN RspEnds(f, Hist(fl.img, fl.cur.id), Undefined)
        ELSE RspEnds(f, HistoryAfterError(Hist(fl.img, fl.cur.id), ReasonErrorEntry(f)),
                     ReasonErrorEntry(f))

\* store.ts:605-619  one delta of the stream is recorded
HistoryAfterDelta(h, fu) ==
  IF h = <<>> THEN h
  ELSE IF fu
       THEN IF Last(h).conv = <<>> THEN h
            ELSE [h EXCEPT ![Len(h)].conv[Len(Last(h).conv)].a = @ + 1]
       ELSE [h EXCEPT ![Len(h)].data =
               TextData((IF @.kind = "text" THEN @.num ELSE 0) + 1)]

\* store.ts:602-619  a visible delta arrives (text prompts)
StreamDelta(f) ==
  LET fl == flows[f]
  IN /\ Quiescent
     /\ fl.pc = "fetch" /\ fl.cur.type = Text
     /\ fl.nd < MaxDeltas
     /\ results' = [results EXCEPT ![fl.img][fl.cur.id] = HistoryAfterDelta(@, fl.fu)]
     /\ flows' = [flows EXCEPT ![f].nd = @ + 1]
     /\ UNCHANGED <<prompts, images, selectedImageId, imageBase64s, abortControllers,
                    aborted, nctl, runningSinglePrompts, isAnalyzing, analysisProgress, nreq, calls,
                    callCap, settings, overlap, pendLog, abortNamed, analysisStates, inflight>>
     /\ UNCHANGED decoderVars

\* store.ts:624-626  finalConversation
FinalConversation(fl, f) ==
  IF fl.fu THEN Append(fl.conv, Turn(FollowUpQuestion(f), fl.nd))
  ELSE <<Turn(FullPromptText(fl.cur), fl.nd)>>

\* store.ts:633-644  updatedResult
FinalEntry(last, fl, f) ==
  [last EXCEPT !.status = "success",
               !.conv = FinalConversation(fl, f),
               !.att = f,
               !.data = IF fl.fu THEN @ ELSE TextData(fl.nd)]

\* store.ts:623-649  the stream ends normally
StreamEnd(f) ==
  LET fl == flows[f]
      h == Hist(fl.img, fl.cur.id)
  IN /\ Quiescent
     /\ fl.pc = "fetch" /\ fl.cur.type = Text
     /\ IF h = <<>>
        THEN RspEnds(f, h, Undefined)
        ELSE RspEnds(f, [h EXCEPT ![Len(h)] = FinalEntry(@, fl, f)],
                     FinalEntry(Last(h), fl, f))

\* ------------------------------------------- after runSinglePrompt returns
EngineUnchangedButFlows ==
  /\ UNCHANGED <<prompts, images, selectedImageId, results, imageBase64s,
                 abortControllers, aborted, nctl, runningSinglePrompts, isAnalyzing, analysisProgress,
                 nreq, calls, callCap, settings, overlap, pendLog, abortNamed, analysisStates, inflight>>
  /\ UNCHANGED decoderVars

\* store.ts:404, 752  `if (result)`: whether handlePromptCompletion is called
CompletionHandled(result) == result # Undefined

\* store.ts:751  if (result?.status === 'error') imageHadError = true
ImageHadErrorAfter(fl) ==
  IF fl.kind = "all" /\ fl.stage = "top" /\ fl.res.status = "error"
  THEN TRUE ELSE fl.imageHadError

\* store.ts:402-406, 477, 690, 705, 750-752  the caller resumes
Ret(f) ==
  LET fl == flows[f]
  IN /\ fl.pc = "ret"
     /\ flows' = [flows EXCEPT ![f] =
          [fl EXCEPT !.imageHadError = ImageHadErrorAfter(fl),
                     !.pc = IF fl.kind = "followup" THEN "done"
                            ELSE IF fl.stage = "child" THEN "kids"
                            ELSE IF CompletionHandled(fl.res) THEN "hpc" ELSE "next"]]
     /\ EngineUnchangedButFlows

\* store.ts:682-712  handlePromptCompletion(prompt, result, imageId), up to the
\* first child
ChildrenToRun(ps, prompt, result, imgres) ==
  CASE CompletionBranch(prompt, result) = "yesno"
         -> YesNoChildren(ps, prompt, result, imgres)
    [] CompletionBranch(prompt, result) = "score"
         -> ScoreChildren(ps, prompt, result, imgres)
    [] CompletionBranch(prompt, result) = "bbox"
         -> BboxChildren(ps, prompt, imgres)
    [] OTHER -> <<>>

Hpc(f) ==
  LET fl == flows[f]
      branch == CompletionBranch(fl.top, fl.res)
      imgres == results[fl.img]
  IN /\ fl.pc = "hpc"
     /\ flows' = [flows EXCEPT ![f] =
          [fl EXCEPT !.ps = prompts,
                     !.hcfg = settings,
                     !.result = fl.res,
                     !.kids = ChildrenToRun(prompts, fl.top, fl.res, imgres),
                     !.evPend = {pid \in PromptIds : imgres[pid] = <<>>},
                     !.evReq = nreq,
                     !.ran = <<>>,
                     !.boxes = IF branch = "bbox" THEN fl.res.data.boxes ELSE <<>>,
                     !.pc = CASE branch = "bbox" -> "fan"
                              [] branch \in {"yesno", "score"} -> "kids"
                              [] OTHER -> "hpcdone"]]
     /\ EngineUnchangedButFlows

\* store.ts:690, 705  for (const child of childrenToRun) await runSinglePrompt(child)
Kids(f) ==
  LET fl == flows[f]
  IN /\ fl.pc = "kids"
     /\ flows' = [flows EXCEPT ![f] =
          IF fl.kids = <<>>
          THEN [fl EXCEPT !.pc = "hpcdone"]
          ELSE [fl EXCEPT !.cur = Head(fl.kids), !.kids = Tail(fl.kids),
                          !.stage = "child", !.pc = "rsp"]]
     /\ EngineUnchangedButFlows

\* store.ts:719  loadingResult of a fan-out child
FanLoadingEntry(f) == Entry("loading", ItemsData(<<>>), f, <<>>)

\* variant of FanRequests that issues the request of the first detection only
FanRequestsFirstOnly(boxes) == IF boxes = <<>> THEN {} ELSE {1}

\* store.ts:722  one request per detection
FanRequests(boxes) == 1..Len(boxes)

\* variant of AwaitAll that does not wait for the requests
AwaitNone(pending) == "fandone"

\* store.ts:723  await Promise.all(childResultsPromises): where the fan-out
\* continues while the requests in pending are unresolved
AwaitAll(pending) == IF pending = {} THEN "fandone" ELSE "join"

\* store.ts:712, 718-723  the next fan-out child: set it loading and issue one
\* request per detection
Fan(f) ==
  LET fl == flows[f]
      child == Head(fl.kids)
  IN /\ fl.pc = "fan"
     /\ IF fl.kids = <<>>
        THEN /\ flows' = [flows EXCEPT ![f].pc = "hpcdone"]
             /\ UNCHANGED <<results, nreq, inflight>>
        ELSE /\ results' = [results EXCEPT ![fl.img][child.id] = <<FanLoadingEntry(f)>>]
             /\ nreq' = nreq + Cardinality(FanRequests(fl.boxes))
             /\ inflight' = [inflight EXCEPT ![fl.img] = @ + Cardinality(FanRequests(fl.boxes))]
             /\ flows' = [flows EXCEPT ![f] =
                  [fl EXCEPT !.cur = child, !.kids = Tail(fl.kids),
                             !.ran = Append(@, child.id),
                             !.fpend = FanRequests(fl.boxes),
                             !.items = [i \in 1..Len(fl.boxes) |->
                                          ChildResult(fl.boxes[i], "pending")],
                             !.resps = [i \in 1..Len(fl.boxes) |-> NoChildResponse],
                             !.req = RequestConfig(fl.hcfg, settings),
                             !.pc = AwaitAll(FanRequests(fl.boxes))]]
     /\ UNCHANGED <<prompts, images, selectedImageId, imageBase64s, abortControllers,
                    aborted, nctl, runningSinglePrompts, isAnalyzing, analysisProgress, calls, callCap, settings, overlap,
                    pendLog, abortNamed, analysisStates>>
     /\ UNCHANGED decoderVars

\* variant of BboxChildResultData that returns null for a call that failed
BboxChildResultDataOrNull(resp) == IF resp.ok THEN resp.content ELSE "null"

\* api.ts:304-321  resultData of fetchBboxChildAnalysis: the coerced content,
\* or the marker `Error: ${message}` ("Error") when the call threw
BboxChildResultData(resp) == IF resp.ok THEN resp.content ELSE "Error"

\* api.ts:274-323  fetchBboxChildAnalysis resolves for detection i: with the
\* coerced value, or with an error marker when the call failed
FanResolve(f, i, r) ==
  LET fl == flows[f]
  IN /\ Quiescent
     /\ fl.pc = "join" /\ i \in fl.fpend
     /\ r \in ChildReplies \cup TruncatedChildReplies
     /\ flows' = [flows EXCEPT ![f] =
          [fl EXCEPT !.items[i] = ChildResult(fl.boxes[i], BboxChildResultData(r)),
                     !.resps[i] = r,
                     !.fpend = @ \ {i},
                     !.pc = AwaitAll(fl.fpend \ {i})]]
     /\ inflight' = [inflight EXCEPT ![fl.img] = @ - 1]
     /\ UNCHANGED <<prompts, images, selectedImageId, results, imageBase64s,
                    abortControllers, aborted, nctl, runningSinglePrompts, isAnalyzing, analysisProgress,
                    nreq, calls, callCap, settings, overlap, pendLog, abortNamed, analysisStates>>
     /\ UNCHANGED decoderVars

\* variant of FinalChildData that drops the per-object calls that failed
FinalChildDataWithoutErrors(items) ==
  LET Answered(r) == r.resultData \notin {"null", "Error"}
  IN SelectSeq(items, Answered)

\* store.ts:724  finalChildData
FinalChildData(items) ==
  LET NotNull(r) == r.resultData # "null"
  IN SelectSeq(items, NotNull)

\* store.ts:723-727  Promise.all has resolved: the child's history becomes
\* [successResult]
FanDone(f) ==
  LET fl == flows[f]
  IN /\ fl.pc = "fandone"
     /\ results' = [results EXCEPT ![fl.img][fl.cur.id] =
          <<Entry("success", ItemsData(FinalChildData(fl.items)), f, <<>>)>>]
     /\ flows' = [flows EXCEPT ![f].pc = "fan"]
     /\ UNCHANGED <<prompts, images, selectedImageId, imageBase64s, abortControllers,
                    aborted, nctl, runningSinglePrompts, isAnalyzing, analysisProgress, nreq, calls,
                    callCap, settings, overlap, pendLog, abortNamed, analysisStates, inflight>>
     /\ UNCHANGED decoderVars

\* handlePromptCompletion returns to its caller
HpcDone(f) ==
  /\ flows[f].pc = "hpcdone"
  /\ flows' = [flows EXCEPT ![f].pc = "next"]
  /\ EngineUnchangedButFlows

\* store.ts:407, 447-451, 747-753  the run goes on with its next prompt
NextStep(f) ==
  LET fl == flows[f]
  IN /\ fl.pc = "next"
     /\ flows' = [flows EXCEPT ![f].pc =
          CASE fl.kind = "pending" -> "task"
            [] fl.kind = "all" -> "itask"
            [] OTHER -> "done"]
     /\ EngineUnchangedButFlows

\* store.ts:447-453 and 360-402  one iteration of runTasks: runSingleAnalysisFlow
\* of the next task on the image selected now, or the end of the run
Task(f) ==
  LET fl == flows[f]
      task == Head(fl.tasks)
  IN /\ fl.pc = "task"
     /\ IF fl.tasks = <<>>
        THEN /\ isAnalyzing' = FALSE
             /\ analysisProgress' = NoProgress
             /\ flows' = [flows EXCEPT ![f].pc = "done"]
             /\ UNCHANGED results
        ELSE IF selectedImageId = NoId
        THEN /\ flows' = [flows EXCEPT ![f].tasks = Tail(fl.tasks)]
             /\ analysisProgress' = Progress(fl.total - Len(fl.tasks) + 1, fl.total)
             /\ UNCHANGED <<results, isAnalyzing>>
        ELSE /\ results' = ClearDescendants(results, prompts, selectedImageId, task.id)
             /\ flows' = [flows EXCEPT ![f] =
                  [fl EXCEPT !.img = selectedImageId, !.top = task, !.cur = task,
                             !.stage = "top", !.tasks = Tail(fl.tasks), !.pc = "rsp"]]
             /\ analysisProgress' = Progress(fl.total - Len(fl.tasks) + 1, fl.total)
             /\ UNCHANGED isAnalyzing
     /\ UNCHANGED <<prompts, images, selectedImageId, imageBase64s, abortControllers,
                    aborted, nctl, runningSinglePrompts, nreq, calls, callCap, settings, overlap,
                    pendLog, abortNamed, analysisStates, inflight>>
     /\ UNCHANGED decoderVars

\* store.ts:745  independentPrompts
IndependentPrompts(ps) == SelectSeq(ps, IsTopLevel)

\* store.ts:745-749  the prompts runAnalysis runs for an image with the
\* histories imgres: the independent prompts that have no history
PromptsToAnalyze(ps, imgres) ==
  LET NotSkipped(p) == imgres[p.id] = <<>>
  IN SelectSeq(IndependentPrompts(ps), NotSkipped)

\* store.ts:737-745, 759  runAnalysis: the next image, or the end of the run
Img(f) ==
  LET fl == flows[f]
  IN /\ fl.pc = "img"
     /\ IF fl.imgs = <<>>
        THEN /\ isAnalyzing' = FALSE
             /\ analysisProgress' = NoProgress
             /\ flows' = [flows EXCEPT ![f].pc = "done"]
             /\ UNCHANGED analysisStates
        ELSE /\ flows' = [flows EXCEPT ![f] =
                  [fl EXCEPT !.img = Head(fl.imgs), !.imgs = Tail(fl.imgs),
                             !.imageHadError = FALSE,
                             !.tasks = IndependentPrompts(fl.ps), !.pc = "itask"]]
             /\ analysisStates' = [analysisStates EXCEPT ![Head(fl.imgs)] = "loading"]
             /\ analysisProgress' = Progress(fl.total - Len(fl.imgs) + 1, fl.total)
             /\ UNCHANGED isAnalyzing
     /\ UNCHANGED <<prompts, images, selectedImageId, results, imageBase64s,
                    abortControllers, aborted, nctl, runningSinglePrompts, nreq,
                    calls, callCap, settings, overlap, pendLog, abortNamed, inflight>>
     /\ UNCHANGED decoderVars

\* variant of AggregateState that leaves an image without error loading
AggregateStateKeepLoading(imageHadError) == IF imageHadError THEN "error" ELSE "loading"

\* store.ts:755  imageHadError ? 'error' : 'success'
AggregateState(imageHadError) == IF imageHadError THEN "error" ELSE "success"

\* store.ts:747-756  the next independent prompt of the image, skipped when it
\* has a history; after the last one the image's aggregate state is set
ITask(f) ==
  LET fl == flows[f]
      p == Head(fl.tasks)
  IN /\ fl.pc = "itask"
     /\ flows' = [flows EXCEPT ![f] =
          IF fl.tasks = <<>> THEN [fl EXCEPT !.pc = "img"]
          ELSE IF Hist(fl.img, p.id) # <<>> THEN [fl EXCEPT !.tasks = Tail(fl.tasks)]
          ELSE [fl EXCEPT !.top = p, !.cur = p, !.stage = "top",
                          !.tasks = Tail(fl.tasks), !.pc = "rsp"]]
     /\ analysisStates' =
          IF fl.tasks = <<>>
          THEN [analysisStates EXCEPT ![fl.img] = AggregateState(fl.imageHadError)]
          ELSE analysisStates
     /\ UNCHANGED <<prompts, images, selectedImageId, results, imageBase64s,
                    abortControllers, aborted, nctl, runningSinglePrompts, isAnalyzing, analysisProgress,
                    nreq, calls, callCap, settings, overlap, pendLog, abortNamed, inflight>>
     /\ UNCHANGED decoderVars

\* --------------------------------------------------------- initial states
\* Prompt lists the store can hold (setPrompts, or the persisted list).
TreeYesNo ==
  <<P("p1", YesNo, NoId, "none", "none", 0),
    P("p2", Number, "p1", "yes", "none", 0),
    P("p3", Number, "p1", "no", "none", 0)>>

TreeScore ==
  <<P("p1", Score, NoId, "none", "none", 0),
    P("p2", Number, "p1", "none", "above", 1),
    P("p3", Number, "p1", "none", "below", 1)>>

TreeBbox ==
  <<P("p1", BoundingBox, NoId, "none", "none", 0),
    P("p2", Number, "p1", "none", "none", 0),
    P("p3", YesNo, "p1", "none", "none", 0)>>

TreeChain ==
  <<P("p1", YesNo, NoId, "none", "none", 0),
    P("p2", YesNo, "p1", "yes", "none", 0),
    P("p3", Number, "p2", "yes", "none", 0)>>

TreeFlat ==
  <<P("p1", Text, NoId, "none", "none", 0),
    P("p2", Number, NoId, "none", "none", 0)>>

TreeMixed ==
  <<P("p1", YesNo, NoId, "none", "none", 0),
    P("p2", Number, "p1", "yes", "none", 0),
    P("p3", Number, NoId, "none", "none", 0)>>

Trees == {TreeYesNo, TreeScore, TreeBbox, TreeChain, TreeFlat, TreeMixed}

NoResults == [img \in ImageIds |-> [pid \in PromptIds |-> <<>>]]

DecoderIdle ==
  /\ deltas = <<>>
  /\ nread = 0
  /\ parsingState = "initial"
  /\ accumulatedContent = <<>>
  /\ emitted = <<>>

\* store.ts:104-126 the store after construction, with the images loaded
StoreInit(trees, imgs, cap, conc, named) ==
  /\ prompts \in trees
  /\ images = imgs
  /\ selectedImageId = Head(imgs)
  /\ results = NoResults
  /\ imageBase64s = {}
  /\ abortControllers = [k \in Keys |-> 0]
  /\ aborted = {}
  /\ nctl = 0
  /\ runningSinglePrompts = {}
  /\ isAnalyzing = FALSE
  /\ analysisProgress = NoProgress
  /\ flows = <<>>
  /\ nreq = 0
  /\ calls = 0
  /\ callCap = cap
  /\ settings = DefaultSettings
  /\ overlap = conc
  /\ pendLog = <<>>
  /\ abortNamed \in named
  /\ inflight = [i \in ImageIds |-> 0]
  /\ analysisStates = [i \in ImageIds |-> IF i \in Range(imgs) THEN "idle" ELSE "absent"]

EngineInit(trees, imgs, cap, conc, named) ==
  StoreInit(trees, imgs, cap, conc, named) /\ DecoderIdle

\* (no request is aborted when runs do not overlap: abortNamed is never read)
Init == EngineInit(Trees, <<"i1">>, MaxFlows, FALSE, {FALSE})

\* ------------------------------------------------------------ engine: Next
Next ==
  \/ \E p \in Range(prompts) : RunSingleAnalysisFlow(p)
  \/ RunPendingAnalysis
  \/ RunAllImagesAnalysis
  \/ \E f \in 1..Len(flows) : RspStart(f)
  \/ \E f \in 1..Len(flows) : B64Done(f)
  \/ \E f \in 1..Len(flows) : RspIssue(f)
  \/ \E f \in 1..Len(flows) : \E d \in Replies(flows[f].cur.type) : FetchSuccess(f, d)
  \/ \E f \in 1..Len(flows) : FetchError(f)
  \/ \E f \in 1..Len(flows) : StreamDelta(f)
  \/ \E f \in 1..Len(flows) : StreamEnd(f)
  \/ \E f \in 1..Len(flows) : Ret(f)
  \/ \E f \in 1..Len(flows) : Hpc(f)
  \/ \E f \in 1..Len(flows) : Kids(f)
  \/ \E f \in 1..Len(flows) : Fan(f)
  \/ \E f \in 1..Len(flows) : \E i \in flows[f].fpend : \E r \in ChildReplies : FanResolve(f, i, r)
  \/ \E f \in 1..Len(flows) : FanDone(f)
  \/ \E f \in 1..Len(flows) : HpcDone(f)
  \/ \E f \in 1..Len(flows) : NextStep(f)
  \/ \E f \in 1..Len(flows) : Task(f)
  \/ \E f \in 1..Len(flows) : Img(f)
  \/ \E f \in 1..Len(flows) : ITask(f)

\* Runs invoked one after the other, each after the previous one has finished.
Spec == Init /\ [][Next]_vars

\* ------------------------------------------------ engine: overlapping attempts
TreeText == <<P("p1", Text, NoId, "none", "none", 0)>>
TreeSingle == <<P("p1", YesNo, NoId, "none", "none", 0)>>

InitCancel == EngineInit({TreeText, TreeSingle}, <<"i1">>, MaxAttempts, TRUE, BOOLEAN)

NextCancel ==
  \/ \E p \in Range(prompts) : RunSingleAnalysisFlow(p)
  \/ \E pid \in PromptIds : SendFollowUp(pid)
  \/ \E f \in 1..Len(flows) : RspStart(f)
  \/ \E f \in 1..Len(flows) : B64Done(f)
  \/ \E f \in 1..Len(flows) : RspIssue(f)
  \/ \E f \in 1..Len(flows) : \E d \in Replies(flows[f].cur.type) : FetchSuccess(f, d)
  \/ \E f \in 1..Len(flows) : FetchError(f)
  \/ \E f \in 1..Len(flows) : AbortReject(f)
  \/ \E f \in 1..Len(flows) : StreamDelta(f)
  \/ \E f \in 1..Len(flows) : StreamEnd(f)
  \/ \E f \in 1..Len(flows) : Ret(f)
  \/ \E f \in 1..Len(flows) : Hpc(f)
  \/ \E f \in 1..Len(flows) : Kids(f)
  \/ \E f \in 1..Len(flows) : HpcDone(f)
  \/ \E f \in 1..Len(flows) : NextStep(f)

\* runOne and sendFollowUp invoked at any time, also while attempts are in flight.
SpecCancel == InitCancel /\ [][NextCancel]_vars

\* ------------------------------------------------ engine: attempts of several pairs
TreePair ==
  <<P("p1", YesNo, NoId, "none", "none", 0),
    P("p3", YesNo, NoId, "none", "none", 0)>>

InitPairs == EngineInit({TreePair}, <<"i1", "i2">>, MaxAttempts, TRUE, BOOLEAN)

NextPairs ==
  \/ \E p \in Range(prompts) : RunSingleAnalysisFlow(p)
  \/ \E id \in Range(images) : SetSelectedImageId(id)
  \/ \E f \in 1..Len(flows) : RspStart(f)
  \/ \E f \in 1..Len(flows) : B64Done(f)
  \/ \E f \in 1..Len(flows) : RspIssue(f)
  \/ \E f \in 1..Len(flows) : \E d \in Replies(flows[f].cur.type) : FetchSuccess(f, d)
  \/ \E f \in 1..Len(flows) : FetchError(f)
  \/ \E f \in 1..Len(flows) : AbortReject(f)
  \/ \E f \in 1..Len(flows) : Ret(f)
  \/ \E f \in 1..Len(flows) : Hpc(f)
  \/ \E f \in 1..Len(flows) : Kids(f)
  \/ \E f \in 1..Len(flows) : HpcDone(f)
  \/ \E f \in 1..Len(flows) : NextStep(f)

\* runOne on either image at any time, also while attempts are in flight.
SpecPairs == InitPairs /\ [][NextPairs]_vars

\* ------------------------------------------------ engine: follow-ups
PromptTexts == {"t0", "t1"}

InitChat == EngineInit({TreeText, TreeSingle}, <<"i1">>, MaxAttempts, FALSE, {FALSE})

NextChat ==
  \/ \E p \in Range(prompts) : RunSingleAnalysisFlow(p)
  \/ \E id \in PromptIds : \E text \in PromptTexts : UpdatePrompt(id, text)
  \/ \E pid \in PromptIds : SendFollowUp(pid)
  \/ \E f \in 1..Len(flows) : RspStart(f)
  \/ \E f \in 1..Len(flows) : B64Done(f)
  \/ \E f \in 1..Len(flows) : RspIssue(f)
  \/ \E f \in 1..Len(flows) : \E d \in Replies(flows[f].cur.type) : FetchSuccess(f, d)
  \/ \E f \in 1..Len(flows) : FetchError(f)
  \/ \E f \in 1..Len(flows) : StreamDelta(f)
  \/ \E f \in 1..Len(flows) : StreamEnd(f)
  \/ \E f \in 1..Len(flows) : Ret(f)
  \/ \E f \in 1..Len(flows) : Hpc(f)
  \/ \E f \in 1..Len(flows) : Kids(f)
  \/ \E f \in 1..Len(flows) : HpcDone(f)
  \/ \E f \in 1..Len(flows) : NextStep(f)

\* runOne, updatePrompt and sendFollowUp, one after the other.
SpecChat == InitChat /\ [][NextChat]_vars

\* ------------------------------------------------ engine: deleting prompts
InitTree == EngineInit({TreeMixed, TreeChain, TreeBbox}, <<"i1", "i2">>, MaxFlows, FALSE, {FALSE})

NextTree ==
  \/ RunAllImagesAnalysis
  \/ \E id \in PromptIds : \E confirmed \in BOOLEAN : DeletePrompt(id, confirmed)
  \/ \E f \in 1..Len(flows) : RspStart(f)
  \/ \E f \in 1..Len(flows) : B64Done(f)
  \/ \E f \in 1..Len(flows) : RspIssue(f)
  \/ \E f \in 1..Len(flows) : \E d \in Replies(flows[f].cur.type) : FetchSuccess(f, d)
  \/ \E f \in 1..Len(flows) : FetchError(f)
  \/ \E f \in 1..Len(flows) : Ret(f)
  \/ \E f \in 1..Len(flows) : Hpc(f)
  \/ \E f \in 1..Len(flows) : Kids(f)
  \/ \E f \in 1..Len(flows) : Fan(f)
  \/ \E f \in 1..Len(flows) : \E i \in flows[f].fpend : \E r \in ChildReplies : FanResolve(f, i, r)
  \/ \E f \in 1..Len(flows) : FanDone(f)
  \/ \E f \in 1..Len(flows) : HpcDone(f)
  \/ \E f \in 1..Len(flows) : NextStep(f)
  \/ \E f \in 1..Len(flows) : Img(f)
  \/ \E f \in 1..Len(flows) : ITask(f)

\* Analysis of every image and deletion of prompts, one after the other.
SpecTree == InitTree /\ [][NextTree]_vars

\* ------------------------------------------------ engine: runs and deletions
InitEdit == EngineInit({TreeChain, TreeYesNo}, <<"i1", "i2">>, MaxFlows, FALSE, {FALSE})

NextEdit ==
  \/ \E p \in Range(prompts) : RunSingleAnalysisFlow(p)
  \/ \E id \in Range(images) : SetSelectedImageId(id)
  \/ \E id \in PromptIds : \E confirmed \in BOOLEAN : DeletePrompt(id, confirmed)
  \/ \E f \in 1..Len(flows) : RspStart(f)
  \/ \E f \in 1..Len(flows) : B64Done(f)
  \/ \E f \in 1..Len(flows) : RspIssue(f)
  \/ \E f \in 1..Len(flows) : \E d \in Replies(flows[f].cur.type) : FetchSuccess(f, d)
  \/ \E f \in 1..Len(flows) : FetchError(f)
  \/ \E f \in 1..Len(flows) : Ret(f)
  \/ \E f \in 1..Len(flows) : Hpc(f)
  \/ \E f \in 1..Len(flows) : Kids(f)
  \/ \E f \in 1..Len(flows) : HpcDone(f)
  \/ \E f \in 1..Len(flows) : NextStep(f)

\* runOne on any prompt and either image, and deletePrompt, one after the other.
SpecEdit == InitEdit /\ [][NextEdit]_vars

\* ------------------------------------------------ engine: batch runs
InitBatch ==
  EngineInit({TreeFlat, TreeMixed, TreeBbox}, <<"i1", "i2">>, MaxFlows, FALSE, {FALSE})

NextBatch ==
  \/ RunPendingAnalysis
  \/ RunAllImagesAnalysis
  \/ \E f \in 1..Len(flows) : RspStart(f)
  \/ \E f \in 1..Len(flows) : B64Done(f)
  \/ \E f \in 1..Len(flows) : RspIssue(f)
  \/ \E f \in 1..Len(flows) : \E d \in Replies(flows[f].cur.type) : FetchSuccess(f, d)
  \/ \E f \in 1..Len(flows) : FetchError(f)
  \/ \E f \in 1..Len(flows) : StreamDelta(f)
  \/ \E f \in 1..Len(flows) : StreamEnd(f)
  \/ \E f \in 1..Len(flows) : Ret(f)
  \/ \E f \in 1..Len(flows) : Hpc(f)
  \/ \E f \in 1..Len(flows) : Kids(f)
  \/ \E f \in 1..Len(flows) : Fan(f)
  \/ \E f \in 1..Len(flows) : \E i \in flows[f].fpend : \E r \in ChildReplies : FanResolve(f, i, r)
  \/ \E f \in 1..Len(flows) : FanDone(f)
  \/ \E f \in 1..Len(flows) : HpcDone(f)
  \/ \E f \in 1..Len(flows) : NextStep(f)
  \/ \E f \in 1..Len(flows) : Task(f)
  \/ \E f \in 1..Len(flows) : Img(f)
  \/ \E f \in 1..Len(flows) : ITask(f)

\* Pending and all-images runs over two images, one after the other.
SpecBatch == InitBatch /\ [][NextBatch]_vars

\* the steps of the engine and of the model endpoint: every step but the
\* caller's invocations
EngineStep ==
  \E f \in 1..Len(flows) :
    \/ RspStart(f) \/ B64Done(f) \/ RspIssue(f)
    \/ \E d \in Replies(flows[f].cur.type) : FetchSuccess(f, d)
    \/ FetchError(f) \/ StreamDelta(f) \/ StreamEnd(f)
    \/ Ret(f) \/ Hpc(f) \/ Kids(f) \/ Fan(f)
    \/ \E i \in flows[f].fpend : \E r \in ChildReplies : FanResolve(f, i, r)
    \/ FanDone(f) \/ HpcDone(f) \/ NextStep(f) \/ Task(f) \/ Img(f) \/ ITask(f)

\* a detection prompt with one fan-out child
TreeBoxOne ==
  <<P("p1", BoundingBox, NoId, "none", "none", 0),
    P("p2", Number, "p1", "none", "none", 0)>>

InitLive ==
  EngineInit({TreeMixed, TreeFlat, TreeBoxOne}, <<"i1", "i2">>, MaxFlows, FALSE, {FALSE})

\* Pending and all-images runs, one after the other, where the event loop
\* keeps running the continuations that are ready and every request issued is
\* eventually answered (with a result or a failure).
SpecLive == InitLive /\ [][NextBatch]_vars /\ WF_vars(EngineStep)

\* ------------------------------------------------ engine: truncated responses
InitTrunc == EngineInit({TreeBbox, TreeFlat}, <<"i1">>, MaxFlows, FALSE, {FALSE})

NextTrunc ==
  \/ \E p \in Range(prompts) : RunSingleAnalysisFlow(p)
  \/ \E f \in 1..Len(flows) : RspStart(f)
  \/ \E f \in 1..Len(flows) : B64Done(f)
  \/ \E f \in 1..Len(flows) : RspIssue(f)
  \/ \E f \in 1..Len(flows) : \E d \in Replies(flows[f].cur.type) : FetchSuccess(f, d)
  \/ \E f \in 1..Len(flows) : FetchError(f)
  \/ \E f \in 1..Len(flows) : FetchTruncated(f)
  \/ \E f \in 1..Len(flows) : StreamDelta(f)
  \/ \E f \in 1..Len(flows) : StreamEnd(f)
  \/ \E f \in 1..Len(flows) : Ret(f)
  \/ \E f \in 1..Len(flows) : Hpc(f)
  \/ \E f \in 1..Len(flows) : Kids(f)
  \/ \E f \in 1..Len(flows) : Fan(f)
  \/ \E f \in 1..Len(flows) : \E i \in flows[f].fpend :
        \E r \in ChildReplies \cup TruncatedChildReplies : FanResolve(f, i, r)
  \/ \E f \in 1..Len(flows) : FanDone(f)
  \/ \E f \in 1..Len(flows) : HpcDone(f)
  \/ \E f \in 1..Len(flows) : NextStep(f)

\* runOne with responses that report finish_reason "length".
SpecTrunc == InitTrunc /\ [][NextTrunc]_vars

\* ------------------------------------------------ editing the prompt list
\* Ids of the prompt editor: Date.now().toString() yields ids that grow with
\* the time of creation.
EditorIds == <<"p1", "p2", "p3", "p4">>

IdRank(id) == CHOOSE i \in 1..Len(EditorIds) : EditorIds[i] = id

\* store.ts:214  Date.now().toString(): an id later than every id in the list
Now(ps) == {id \in Range(EditorIds) : \A p \in Range(ps) : IdRank(p.id) < IdRank(id)}

\* store.ts:225-226  (min + max) / 2 of the default scoreRange [0, 10]
ScoreMidpoint == 5

\* store.ts:212-228  newPrompt
NewPrompt(ps, id, parentId) ==
  LET parentPrompt == FindPrompt(ps, parentId)
  IN IF parentId # NoId /\ parentPrompt # NoPrompt
     THEN P(id, Text, parentId,
            IF parentPrompt.type = YesNo THEN "yes" ELSE "none",
            IF parentPrompt.type = Score THEN "above" ELSE "none",
            IF parentPrompt.type = Score THEN ScoreMidpoint ELSE 0)
     ELSE P(id, Text, NoId, "none", "none", 0)

\* store.ts:210-230  addPrompt(parentId)
AddPrompt(parentId, id) ==
  /\ CallAllowed
  /\ id \in Now(prompts)
  /\ calls' = calls + 1
  /\ prompts' = Append(prompts, NewPrompt(prompts, id, parentId))
  /\ UNCHANGED <<images, selectedImageId, results, imageBase64s, abortControllers,
                 aborted, nctl, runningSinglePrompts, isAnalyzing, analysisProgress, flows, nreq, callCap, settings,
                 overlap, pendLog, abortNamed, analysisStates, inflight>>
  /\ UNCHANGED decoderVars

\* store.ts:281-282  draggedGroup
DraggedGroup(ps, draggedId) ==
  LET IsChild(p) == p.parentId = draggedId
  IN <<FindPrompt(ps, draggedId)>> \o SelectSeq(ps, IsChild)

\* store.ts:285  remainingPrompts
RemainingPrompts(ps, draggedId) ==
  LET groupIds == {p.id : p \in Range(DraggedGroup(ps, draggedId))}
      Stays(p) == p.id \notin groupIds
  IN SelectSeq(ps, Stays)

\* store.ts:287  findIndex (0 stands for -1)
FindIndex(ps, id) ==
  LET hits == {i \in 1..Len(ps) : ps[i].id = id}
  IN IF hits = {} THEN 0 ELSE CHOOSE i \in hits : \A j \in hits : i <= j

\* store.ts:290  splice(targetIndex, 0, ...group)
Splice(ps, at, group) == SubSeq(ps, 1, at - 1) \o group \o SubSeq(ps, at, Len(ps))

\* store.ts:273-294  the prompt list after dropPrompt(draggedId, targetId)
PromptsAfterDrop(ps, draggedId, targetId) ==
  LET draggedParent == FindPrompt(ps, draggedId)
      remaining == RemainingPrompts(ps, draggedId)
      targetIndex == FindIndex(remaining, targetId)
  IN IF draggedParent = NoPrompt \/ draggedParent.parentId # NoId THEN ps
     ELSE IF targetIndex = 0 THEN ps
     ELSE Splice(remaining, targetIndex, DraggedGroup(ps, draggedId))

\* store.ts:273-294  dropPrompt(draggedId, targetId)
DropPrompt(draggedId, targetId) ==
  /\ CallAllowed
  /\ calls' = calls + 1
  /\ prompts' = PromptsAfterDrop(prompts, draggedId, targetId)
  /\ UNCHANGED <<images, selectedImageId, results, imageBase64s, abortControllers,
                 aborted, nctl, runningSinglePrompts, isAnalyzing, analysisProgress, flows, nreq, callCap, settings,
                 overlap, pendLog, abortNamed, analysisStates, inflight>>
  /\ UNCHANGED decoderVars

InitForest == EngineInit({<<>>, TreeChain, TreeYesNo}, <<"i1">>, MaxEdits, FALSE, {FALSE})

NextForest ==
  \/ \E parentId \in Range(EditorIds) \cup {NoId} : \E id \in Range(EditorIds) :
       AddPrompt(parentId, id)
  \/ \E id \in Range(EditorIds) : \E confirmed \in BOOLEAN : DeletePrompt(id, confirmed)
  \/ \E d \in Range(EditorIds) : \E t \in Range(EditorIds) : DropPrompt(d, t)

\* Any sequence of at most MaxEdits edits of the prompt list.
SpecForest == InitForest /\ [][NextForest]_vars

\* ------------------------------------------------------ streaming decoder
OpenTag == <<"<", "t", "h", "i", "n", "k", ">">>
CloseTag == <<"<", "/", "t", "h", "i", "n", "k", ">">>

\* String.prototype.substring(from), from 0-based
SubstringFrom(s, from) == SubSeq(s, from + 1, Len(s))

DecoderState(state, acc, out) ==
  [parsingState |-> state, accumulatedContent |-> acc, out |-> out]

\* the remainder is yielded with its leading white space
AfterThinkUntrimmed(acc) ==
  LET endThinkTagIndex == IndexOf(acc, CloseTag) - 1
      remainingContent == SubstringFrom(acc, endThinkTagIndex + Len(CloseTag))
  IN DecoderState("streaming", <<>>,
       IF remainingContent # <<>> THEN <<remainingContent>> ELSE <<>>)

\* api.ts:182-189, 200-207  the buffer holds the end of the think block
AfterThink(acc) ==
  LET endThinkTagIndex == IndexOf(acc, CloseTag) - 1
      remainingContent == SubstringFrom(acc, endThinkTagIndex + Len(CloseTag))
  IN DecoderState("streaming", <<>>,
       IF remainingContent # <<>> THEN <<TrimStart(remainingContent)>> ELSE <<>>)

\* a decoder that inspects the deltas of the answer too: a delta that opens a
\* think block sends it back to skipping
DecodeInspecting(state, acc, delta) ==
  IF delta = <<>> THEN DecoderState(state, acc, <<>>)
  ELSE IF state = "initial"
  THEN LET a == acc \o delta
       IN IF Len(Trim(a)) > 0
          THEN IF StartsWith(Trim(a), OpenTag)
               THEN IF IndexOf(a, CloseTag) # 0
                    THEN AfterThink(a)
                    ELSE DecoderState("skipping_think", a, <<>>)
               ELSE DecoderState("streaming", <<>>, <<a>>)
          ELSE DecoderState("initial", a, <<>>)
  ELSE IF state = "skipping_think"
  THEN LET a == acc \o delta
       IN IF IndexOf(a, CloseTag) # 0
          THEN AfterThink(a)
          ELSE DecoderState("skipping_think", a, <<>>)
  ELSE IF StartsWith(delta, OpenTag) /\ IndexOf(delta, CloseTag) = 0
  THEN DecoderState("skipping_think", delta, <<>>)
  ELSE DecoderState("streaming", acc, <<TrimStart(delta)>>)

\* api.ts:173-209  one content delta: the new state and the contents yielded
Decode(state, acc, delta) ==
  IF delta = <<>> THEN DecoderState(state, acc, <<>>)
  ELSE IF state = "initial"
  THEN LET a == acc \o delta
       IN IF Len(Trim(a)) > 0
          THEN IF StartsWith(Trim(a), OpenTag)
               THEN IF IndexOf(a, CloseTag) # 0
                    THEN AfterThink(a)
                    ELSE DecoderState("skipping_think", a, <<>>)
               ELSE DecoderState("streaming", <<>>, <<a>>)
          ELSE DecoderState("initial", a, <<>>)
  ELSE IF state = "skipping_think"
  THEN LET a == acc \o delta
       IN IF IndexOf(a, CloseTag) # 0
          THEN AfterThink(a)
          ELSE DecoderState("skipping_think", a, <<>>)
  ELSE DecoderState("streaming", acc, <<delta>>)

\* api.ts:156-212  the loop reads the next content delta of the response
OnDelta ==
  /\ nread < Len(deltas)
  /\ LET d == Decode(parsingState, accumulatedContent, deltas[nread + 1])
     IN /\ parsingState' = d.parsingState
        /\ accumulatedContent' = d.accumulatedContent
        /\ emitted' = emitted \o d.out
  /\ nread' = nread + 1
  /\ UNCHANGED deltas
  /\ UNCHANGED engineVars

\* the ways the server can cut text s into at most n non-empty deltas
RECURSIVE Splits(_, _)
Splits(s, n) ==
  IF s = <<>> THEN {<<>>}
  ELSE IF n = 0 THEN {}
  ELSE UNION {{<<SubSeq(s, 1, k)>> \o rest :
                 rest \in Splits(SubSeq(s, k + 1, Len(s)), n - 1)} : k \in 1..Len(s)}

\* response texts: a think block followed by an answer; a plain answer
ThinkResponse == OpenTag \o <<"r">> \o CloseTag \o <<" ", "H", "i">>
PlainResponse == <<" ", "H", "i">>
\* a think block inside the answer
MidResponse == <<"H">> \o OpenTag \o <<"r">> \o CloseTag \o <<" ", "i">>

\* "<thi", "nk>hidden reasoning</thi", "nk> Hello", ", world"
ExampleStream ==
  <<<<"<", "t", "h", "i">>,
    <<"n", "k", ">", "h", "i", "d", "d", "e", "n", " ", "r", "e", "a", "s", "o", "n", "i", "n", "g", "<", "/", "t", "h", "i">>,
    <<"n", "k", ">", " ", "H", "e", "l", "l", "o">>,
    <<",", " ", "w", "o", "r", "l", "d">>>>

Streams ==
  Splits(ThinkResponse, MaxPieces) \cup Splits(PlainResponse, MaxPieces)
    \cup Splits(MidResponse, MaxPieces) \cup {ExampleStream}

InitStream ==
  /\ StoreInit({TreeText}, <<"i1">>, 0, FALSE, {FALSE})
  /\ deltas \in Streams
  /\ nread = 0
  /\ parsingState = "initial"
  /\ accumulatedContent = <<>>
  /\ emitted = <<>>

\* The decoder of fetchAnalysisStream reading one response.
SpecStream == InitStream /\ [][OnDelta]_vars

InitSwitch == EngineInit({TreeMixed, TreePair}, <<"i1", "i2">>, MaxFlows, TRUE, BOOLEAN)

NextSwitch ==
  \/ RunPendingAnalysis
  \/ \E id \in Range(images) : SetSelectedImageId(id)
  \/ \E f \in 1..Len(flows) : RspStart(f)
  \/ \E f \in 1..Len(flows) : B64Done(f)
  \/ \E f \in 1..Len(flows) : RspIssue(f)
  \/ \E f \in 1..Len(flows) : \E d \in Replies(flows[f].cur.type) : FetchSuccess(f, d)
  \/ \E f \in 1..Len(flows) : FetchError(f)
  \/ \E f \in 1..Len(flows) : AbortReject(f)
  \/ \E f \in 1..Len(flows) : Ret(f)
  \/ \E f \in 1..Len(flows) : Hpc(f)
  \/ \E f \in 1..Len(flows) : Kids(f)
  \/ \E f \in 1..Len(flows) : HpcDone(f)
  \/ \E f \in 1..Len(flows) : NextStep(f)
  \/ \E f \in 1..Len(flows) : Task(f)

\* runPendingAnalysis and setSelectedImageId invoked at any time, also while a
\* pending run is in progress.
SpecSwitch == InitSwitch /\ [][NextSwitch]_vars

InitGone == EngineInit({TreeYesNo, TreePair}, <<"i1", "i2">>, MaxFlows, TRUE, BOOLEAN)

NextGone ==
  \/ \E p \in Range(prompts) : RunSingleAnalysisFlow(p)
  \/ \E id \in PromptIds : \E confirmed \in BOOLEAN : DeletePrompt(id, confirmed)
  \/ \E id \in ImageIds : RemoveImage(id)
  \/ \E f \in 1..Len(flows) : RspStart(f)
  \/ \E f \in 1..Len(flows) : RspNoImage(f)
  \/ \E f \in 1..Len(flows) : B64Done(f)
  \/ \E f \in 1..Len(flows) : RspIssue(f)
  \/ \E f \in 1..Len(flows) : \E d \in Replies(flows[f].cur.type) : FetchSuccess(f, d)
  \/ \E f \in 1..Len(flows) : FetchError(f)
  \/ \E f \in 1..Len(flows) : AbortReject(f)
  \/ \E f \in 1..Len(flows) : Ret(f)
  \/ \E f \in 1..Len(flows) : Hpc(f)
  \/ \E f \in 1..Len(flows) : Kids(f)
  \/ \E f \in 1..Len(flows) : HpcDone(f)
  \/ \E f \in 1..Len(flows) : NextStep(f)

\* runOne, deletePrompt and removeImage invoked at any time, also while
\* attempts are in flight.
SpecGone == InitGone /\ [][NextGone]_vars

InitFan == EngineInit({TreeBbox}, <<"i1">>, MaxFlows, TRUE, BOOLEAN)

NextFan ==
  \/ \E p \in Range(prompts) : RunSingleAnalysisFlow(p)
  \/ \E f \in 1..Len(flows) : RspStart(f)
  \/ \E f \in 1..Len(flows) : B64Done(f)
  \/ \E f \in 1..Len(flows) : RspIssue(f)
  \/ \E f \in 1..Len(flows) : \E d \in Replies(flows[f].cur.type) : FetchSuccess(f, d)
  \/ \E f \in 1..Len(flows) : FetchError(f)
  \/ \E f \in 1..Len(flows) : AbortReject(f)
  \/ \E f \in 1..Len(flows) : Ret(f)
  \/ \E f \in 1..Len(flows) : Hpc(f)
  \/ \E f \in 1..Len(flows) : Kids(f)
  \/ \E f \in 1..Len(flows) : Fan(f)
  \/ \E f \in 1..Len(flows) : \E i \in flows[f].fpend : \E r \in ChildReplies : FanResolve(f, i, r)
  \/ \E f \in 1..Len(flows) : FanDone(f)
  \/ \E f \in 1..Len(flows) : HpcDone(f)
  \/ \E f \in 1..Len(flows) : NextStep(f)

\* runOne on a detection prompt and its fan-out children, invoked at any
\* time, also while a fan-out is in flight.
SpecFan == InitFan /\ [][NextFan]_vars

InitSettings ==
  EngineInit({TreeMixed, TreeFlat, TreeBoxOne}, <<"i1">>, MaxFlows, FALSE, {FALSE})

NextSettings ==
  \/ \E p \in Range(prompts) : RunSingleAnalysisFlow(p)
  \/ RunPendingAnalysis
  \/ RunAllImagesAnalysis
  \/ \E pid \in PromptIds : SendFollowUp(pid)
  \/ \E s \in Settings : SaveSettings(s)
  \/ \E f \in 1..Len(flows) : RspStart(f)
  \/ \E f \in 1..Len(flows) : B64Done(f)
  \/ \E f \in 1..Len(flows) : RspIssue(f)
  \/ \E f \in 1..Len(flows) : \E d \in Replies(flows[f].cur.type) : FetchSuccess(f, d)
  \/ \E f \in 1..Len(flows) : FetchError(f)
  \/ \E f \in 1..Len(flows) : StreamDelta(f)
  \/ \E f \in 1..Len(flows) : StreamEnd(f)
  \/ \E f \in 1..Len(flows) : Ret(f)
  \/ \E f \in 1..Len(flows) : Hpc(f)
  \/ \E f \in 1..Len(flows) : Kids(f)
  \/ \E f \in 1..Len(flows) : Fan(f)
  \/ \E f \in 1..Len(flows) : \E i \in flows[f].fpend : \E r \in ChildReplies : FanResolve(f, i, r)
  \/ \E f \in 1..Len(flows) : FanDone(f)
  \/ \E f \in 1..Len(flows) : HpcDone(f)
  \/ \E f \in 1..Len(flows) : NextStep(f)
  \/ \E f \in 1..Len(flows) : Task(f)
  \/ \E f \in 1..Len(flows) : Img(f)
  \/ \E f \in 1..Len(flows) : ITask(f)

\* The four run operations one after the other, and saveSettings at any time,
\* also while a run is active.
SpecSettings == InitSettings /\ [][NextSettings]_vars

\* =================================================================== claims
\* Flows whose handlePromptCompletion has just returned: fl.top is the parent,
\* fl.result its result, fl.ps the prompts it read, fl.evPend the prompts whose
\* history was empty when it started, fl.ran the children it ran, in order.
Completed == {f \in 1..Len(flows) : flows[f].pc = "hpcdone"}

DirectChildren(ps, id) == {c \in Range(ps) : c.parentId = id}

NoDuplicates(s) == \A i, j \in 1..Len(s) : s[i] = s[j] => i = j

\* the characters y, e, s occur in a row in s, in any case
ContainsYes(s) ==
  \E i \in 1..(Len(s) - 2) :
    /\ s[i] \in {"y", "Y"}
    /\ s[i + 1] \in {"e", "E"}
    /\ s[i + 2] \in {"s", "S"}

\* C1: when the attempt of a yes/no prompt ended with status success and string
\* data, the children run by the completion handler are exactly the direct
\* children that had an empty history and whose condition is 'yes' if the
\* data, lower-cased, contains "yes", and 'no' otherwise; each is run once and
\* no child with the other condition is run.
C1_YesNoChildren ==
  \A f \in Completed :
    LET fl == flows[f]
        want == IF ContainsYes(fl.result.data.str) THEN "yes" ELSE "no"
    IN (fl.top.type = YesNo /\ fl.result.status = "success" /\ fl.result.data.kind = "string")
       => /\ Range(fl.ran) = {c.id : c \in {d \in DirectChildren(fl.ps, fl.top.id) :
                                            d.condition = want /\ d.id \in fl.evPend}}
          /\ NoDuplicates(fl.ran)

\* C1 witness: a mixed-case answer containing "yes" ran the yes-child only.
C1_Witness ==
  \E f \in Completed :
    /\ flows[f].top.type = YesNo
    /\ flows[f].result.status = "success"
    /\ flows[f].result.data.str = <<"o", "Y", "E", "S">>
    /\ flows[f].ps = TreeYesNo
    /\ flows[f].ran = <<"p2">>

\* C2: when the attempt of a score prompt ended success with numeric result s,
\* a direct child with an empty history and trigger {above, v} is run iff
\* s > v, one with trigger {below, v} iff s < v; with s = v neither is run.
C2_ScoreChildren ==
  \A f \in Completed :
    LET fl == flows[f]
        s == fl.result.data
    IN (fl.top.type = Score /\ fl.result.status = "success" /\ s.kind = "number")
       => \A c \in DirectChildren(fl.ps, fl.top.id) :
            (c.id \in fl.evPend /\ c.scoreConditionOperator \in {"above", "below"})
            => /\ c.scoreConditionOperator = "above"
                    => (c.id \in Range(fl.ran) <=> s.num > c.scoreConditionValue)
               /\ c.scoreConditionOperator = "below"
                    => (c.id \in Range(fl.ran) <=> s.num < c.scoreConditionValue)
               /\ s.num = c.scoreConditionValue => c.id \notin Range(fl.ran)

\* C2 witness: the score equals the trigger value of both children and no
\* child was run.
C2_Witness ==
  \E f \in Completed :
    /\ flows[f].top.type = Score
    /\ flows[f].result.status = "success"
    /\ flows[f].result.data = NumData(1)
    /\ flows[f].ps = TreeScore
    /\ {"p2", "p3"} \subseteq flows[f].evPend
    /\ flows[f].ran = <<>>

LatestIs(img, pid, status) ==
  Hist(img, pid) # <<>> /\ Last(Hist(img, pid)).status = status

\* C3: a bounding-box parent that succeeded with an empty detection array
\* issues no request for its children; with N > 0 detections every direct
\* child that had an empty history is run exactly once, with one request per
\* detection, and ends with a success result holding exactly N entries, the
\* i-th carrying the i-th detection as its parentBox.
C3_FanOut ==
  \A f \in 1..Len(flows) :
    LET fl == flows[f]
        n == Len(fl.result.data.boxes)
        done == IF fl.ran = <<>> THEN NoId ELSE Last(fl.ran)
    IN (fl.top.type = BoundingBox /\ fl.result.status = "success"
          /\ fl.result.data.kind = "boxes")
       => /\ (fl.pc = "hpcdone" /\ n = 0) => (fl.ran = <<>> /\ nreq = fl.evReq)
          /\ (fl.pc = "hpcdone" /\ n > 0)
               => /\ Range(fl.ran) = {c.id : c \in {d \in DirectChildren(fl.ps, fl.top.id) :
                                                    d.id \in fl.evPend}}
                  /\ NoDuplicates(fl.ran)
                  /\ nreq = fl.evReq + n * Len(fl.ran)
          /\ (fl.pc \in {"fan", "hpcdone"} /\ n > 0 /\ fl.ran # <<>>)
               => /\ LatestIs(fl.img, done, "success")
                  /\ LET items == Last(Hist(fl.img, done)).data.items
                     IN /\ Len(items) = n
                        /\ \A i \in 1..n : items[i].parentBox = fl.result.data.boxes[i]

\* C3 witness: two detections, both children run, one per-object call failed.
C3_Witness ==
  \E f \in Completed :
    /\ flows[f].top.type = BoundingBox
    /\ flows[f].result.data.boxes = <<"b1", "b2">>
    /\ flows[f].ran = <<"p2", "p3">>
    /\ Len(Last(Hist(flows[f].img, "p3")).data.items) = 2
    /\ Last(Hist(flows[f].img, "p3")).data.items[1].resultData = "Error"
    /\ nreq = flows[f].evReq + 4

\* C4 (as claimed): once a second runPendingAnalysis, invoked after the first
\* has run to completion with no change of the prompts in between, has itself
\* finished, it has issued no request and the result histories are what they
\* were when it was invoked.
C4_SecondRunIdle ==
  (Len(pendLog) = 2 /\ calls = 2 /\ AllDone)
    => (nreq = pendLog[2].nreq /\ results = pendLog[2].results)

\* C10 (as claimed): in the chain p1 -> p2 -> p3 with every condition met, a
\* finished runOne of p1 has executed the grandchild p3.
C10_GrandchildRuns ==
  \A f \in 1..Len(flows) :
    LET fl == flows[f]
    IN (/\ fl.kind = "one" /\ fl.pc = "done" /\ calls = 1
        /\ prompts = TreeChain /\ fl.top.id = "p1"
        /\ LatestIs(fl.img, "p1", "success")
        /\ ContainsYes(Last(Hist(fl.img, "p1")).data.str)
        /\ LatestIs(fl.img, "p2", "success")
        /\ ContainsYes(Last(Hist(fl.img, "p2")).data.str))
       => Hist(fl.img, "p3") # <<>>

IsTerminal(e) == e.status \in {"success", "error"}

\* two runOne invocations for one pair, the second made before the request of
\* the first has resolved (the first is reading the image or awaiting the
\* response), both settled
TwiceSettled ==
  /\ Len(flows) = 2
  /\ flows[1].kind = "one" /\ flows[2].kind = "one"
  /\ Key(flows[1]) = Key(flows[2])
  /\ flows[2].over \in {"b64", "fetch"}
  /\ flows[1].pc = "done" /\ flows[2].pc = "done"

\* C5 (as claimed): when runOne(p, img) is invoked a second time before the
\* request of the first has resolved, then once both have settled the history
\* of (img, p) holds exactly one terminal entry (success or error), and it is
\* the outcome of the second invocation.
C5_SecondWins ==
  TwiceSettled =>
    LET h == Hist(flows[2].img, flows[2].cur.id)
        terminal == {i \in 1..Len(h) : IsTerminal(h[i])}
    IN /\ Cardinality(terminal) = 1
       /\ \A i \in terminal : h[i] = flows[2].res /\ h[i].att = 2

\* C6 (as claimed): an attempt whose controller was aborted by a newer attempt
\* of its pair leaves no entry of its own (loading, partial or error) in the
\* history of the pair once it has settled.
C6_AbortedInvisible ==
  \A f \in 1..Len(flows) :
    (flows[f].ctl \in aborted /\ flows[f].pc = "done")
      => \A i \in 1..Len(Hist(flows[f].img, flows[f].cur.id)) :
           Hist(flows[f].img, flows[f].cur.id)[i].att # f

\* C7 (as claimed): at most one request of a pair is in flight and not aborted.
C7_OneInFlight ==
  \A img \in ImageIds, pid \in PromptIds :
    Cardinality({f \in 1..Len(flows) :
                   /\ flows[f].img = img /\ flows[f].cur.id = pid
                   /\ flows[f].pc = "fetch"
                   /\ flows[f].ctl \notin aborted}) <= 1

\* the text that follows the think block of a response
Answer(text) == SubstringFrom(text, IndexOf(text, CloseTag) - 1 + Len(CloseTag))

HasThinkBlock(text) == StartsWith(text, OpenTag) /\ Includes(text, CloseTag)

\* C8 (as claimed): once a response that starts with a think block has been
\* read to its end, the yielded contents concatenate to the answer without its
\* leading white space, however the response was cut into deltas.
C8_AnswerOnly ==
  (nread = Len(deltas) /\ HasThinkBlock(Concat(deltas)))
    => Concat(emitted) = TrimStart(Answer(Concat(deltas)))

\* the prompt id together with the ids of its direct children
Cascade(ps, id) == {id} \cup {c.id : c \in DirectChildren(ps, id)}

\* prompts of ps with an id outside gone, in their order
RECURSIVE Without(_, _)
Without(ps, gone) ==
  IF ps = <<>> THEN <<>>
  ELSE IF Head(ps).id \in gone THEN Without(Tail(ps), gone)
  ELSE <<Head(ps)>> \o Without(Tail(ps), gone)

\* C9: a confirmed deletePrompt on a prompt with direct children removes the
\* prompt and its direct children from the prompt list and empties their
\* result histories for every image, and leaves every other prompt and every
\* other history as it was.
C9_DeleteCascade ==
  [][\A id \in PromptIds :
       (DeletePrompt(id, TRUE) /\ DirectChildren(prompts, id) # {})
         => /\ prompts' = Without(prompts, Cascade(prompts, id))
            /\ \A img \in ImageIds, pid \in PromptIds :
                 results'[img][pid] =
                   IF pid \in Cascade(prompts, id) THEN <<>> ELSE results[img][pid]]_vars

\* C9 witness: after every image was analysed, p1 of TreeMixed was deleted
\* with its child p2; p3 and its histories on both images remain.
C9_Witness ==
  /\ calls = 2 /\ Len(flows) = 1 /\ flows[1].kind = "all" /\ flows[1].pc = "done"
  /\ flows[1].ps = TreeMixed
  /\ prompts = <<TreeMixed[3]>>
  /\ \A img \in ImageIds :
       /\ results[img]["p1"] = <<>> /\ results[img]["p2"] = <<>>
       /\ results[img]["p3"] # <<>>

\* C11: when the attempt of a parent ended with status error, the handling of
\* that completion runs no child and issues no request, whatever the parent's
\* type and the children's configuration.
C11_ErrorParentNoChildren ==
  \A f \in Completed :
    flows[f].result.status = "error"
      => (flows[f].ran = <<>> /\ nreq = flows[f].evReq)

\* C11 witness: a yes/no parent with two pending children ended in error.
C11_Witness ==
  \E f \in Completed :
    /\ flows[f].result.status = "error"
    /\ flows[f].ps = TreeYesNo /\ flows[f].top.id = "p1"
    /\ {"p2", "p3"} \subseteq flows[f].evPend
    /\ nreq = flows[f].evReq

\* the run of flow f is under way
Running(f) == flows[f].pc # "done"

\* C12 (as claimed): while a runPendingAnalysis or runAllImagesAnalysis run is
\* under way, every child prompt that held a non-empty history for an image
\* when the run was invoked still holds that same history (no request of the
\* run has touched it, and it was neither cleared nor replaced).
C12_ChildHistoryKept ==
  \A f \in 1..Len(flows) :
    (flows[f].kind \in {"pending", "all"} /\ Running(f))
      => \A img \in ImageIds : \A c \in Range(prompts) :
           (~IsTopLevel(c) /\ flows[f].snap[img][c.id] # <<>>)
             => results[img][c.id] = flows[f].snap[img][c.id]

\* C13 (as claimed): while a runPendingAnalysis run is under way, a parent
\* whose latest result was success and that had a child with an empty history
\* when the run was invoked keeps its history as it was: the run issues no
\* request for the parent and adds no entry to its history.
C13_ParentNotRerun ==
  \A f \in 1..Len(flows) :
    (flows[f].kind = "pending" /\ Running(f))
      => \A p \in Range(prompts) :
           LET before == flows[f].snap[selectedImageId]
           IN (/\ before[p.id] # <<>>
               /\ Last(before[p.id]).status = "success"
               /\ \E c \in DirectChildren(prompts, p.id) : before[c.id] = <<>>)
              => results[selectedImageId][p.id] = before[p.id]

\* the run of flow f has finished and no later run has started
LastRunDone(f) == f = Len(flows) /\ flows[f].pc = "done"

\* C14: an attempt that ends in error has recorded, as the latest entry of its
\* pair, an entry with status error and a message; and the run goes on: a
\* finished runAllImagesAnalysis has left every top-level prompt of every
\* image with a history, a finished runPendingAnalysis has executed every task
\* of its list.
C14_ErrorRecordedRunGoesOn ==
  \A f \in 1..Len(flows) :
    LET fl == flows[f]
    IN /\ (fl.pc = "ret" /\ fl.res.status = "error")
            => /\ Hist(fl.img, fl.cur.id) # <<>>
               /\ Last(Hist(fl.img, fl.cur.id)) = fl.res
               /\ fl.res.error = "message"
       /\ (fl.kind = "all" /\ LastRunDone(f))
            => \A i \in 1..Len(images) : \A p \in Range(fl.ps) :
                 IsTopLevel(p) => Hist(images[i], p.id) # <<>>
       /\ (fl.kind = "pending" /\ LastRunDone(f))
            => \A t \in Range(TasksToRun(prompts, fl.snap[selectedImageId])) :
                 /\ Hist(selectedImageId, t.id) # <<>>
                 /\ Last(Hist(selectedImageId, t.id)).att = f

\* C14 witness: the first prompt of the first image failed, and the run went
\* on to the second prompt and to the second image.
C14_Witness ==
  \E f \in 1..Len(flows) :
    /\ flows[f].kind = "all" /\ LastRunDone(f) /\ flows[f].ps = TreeFlat
    /\ Last(Hist("i1", "p1")) = ErrorEntry(f)
    /\ LatestIs("i1", "p2", "success") /\ Last(Hist("i1", "p2")).att = f
    /\ LatestIs("i2", "p1", "success") /\ Last(Hist("i2", "p1")).att = f
    /\ LatestIs("i2", "p2", "error")

\* C15: while a runAllImagesAnalysis run is under way, every request in
\* flight (top-level prompts, conditional children, fan-out calls) belongs to
\* the image the run is processing: none of an earlier image is unresolved
\* and none of a later image has been issued.
C15_OneImageAtATime ==
  \A f \in 1..Len(flows) :
    (flows[f].kind = "all" /\ Running(f))
      => \A i \in ImageIds : inflight[i] > 0 => i = flows[f].img

\* C15 witness: the run has finished the first image and has two fan-out
\* requests of the second image in flight.
C15_Witness ==
  \E f \in 1..Len(flows) :
    /\ flows[f].kind = "all" /\ flows[f].pc = "join" /\ flows[f].img = "i2"
    /\ inflight["i2"] = 2 /\ inflight["i1"] = 0
    /\ LatestIs("i1", "p1", "success") /\ LatestIs("i1", "p3", "success")

\* C16 (as claimed): when a runAllImagesAnalysis run has finished processing
\* an image, the image's aggregate state is error iff the latest result of
\* some top-level prompt for the image has status error, and success otherwise.
C16_AggregateState ==
  \A f \in 1..Len(flows) :
    (flows[f].kind = "all" /\ flows[f].pc = "img" /\ flows[f].img # NoId)
      => analysisStates[flows[f].img] =
           IF \E p \in Range(flows[f].ps) :
                IsTopLevel(p) /\ LatestIs(flows[f].img, p.id, "error")
           THEN "error" ELSE "success"

\* C17 (as claimed): a response that reports finish_reason "length" never
\* produces a success value: the streamed or single-shot attempt that received
\* it has ended in error, and no entry of a fan-out carries the content of such
\* a response as its value.
C17_TruncationIsError ==
  \A f \in 1..Len(flows) :
    /\ (flows[f].pc = "ret" /\ flows[f].res.error = "truncated")
         => /\ flows[f].res.status = "error"
            /\ LatestIs(flows[f].img, flows[f].cur.id, "error")
    /\ \A i \in 1..Len(flows[f].items) : \A t \in TruncatedChildReplies :
         flows[f].items[i].resultData # t.content

\* C18: in a fan-out over N detections, once the child's requests have all
\* resolved the child's latest result is success with N entries, whatever
\* number of the per-object calls failed: the entry of a call that failed
\* carries the error marker, the entry of every other call the value coerced
\* from its own response.
C18_FailedObjectKept ==
  \A f \in 1..Len(flows) :
    LET fl == flows[f]
        n == Len(fl.boxes)
    IN (fl.pc \in {"fan", "hpcdone"} /\ fl.top.type = BoundingBox /\ fl.ran # <<>>)
       => /\ LatestIs(fl.img, Last(fl.ran), "success")
          /\ LET items == Last(Hist(fl.img, Last(fl.ran))).data.items
             IN /\ Len(items) = n
                /\ \A i \in 1..n :
                     /\ ~fl.resps[i].ok => items[i].resultData = "Error"
                     /\ fl.resps[i].ok => items[i].resultData = fl.resps[i].content

\* C18 witness: a fan-out over two detections has ended, the call for the
\* first object failed, the call for the second was answered.
C18_Witness ==
  \E f \in 1..Len(flows) :
    /\ flows[f].pc = "hpcdone" /\ flows[f].top.type = BoundingBox
    /\ flows[f].ran # <<>>
    /\ Len(flows[f].boxes) = 2
    /\ ~flows[f].resps[1].ok /\ flows[f].resps[2].ok
    /\ LatestIs(flows[f].img, Last(flows[f].ran), "success")
    /\ Last(Hist(flows[f].img, Last(flows[f].ran))).data.items[2].resultData = "w"

\* C19: while a fan-out child waits for its N per-object requests its latest
\* result is loading with an empty array, the requests not yet resolved are
\* all in flight together (all N of them before the first resolves), and the
\* wait ends only when none is left; the child's result becomes success only
\* after that.
C19_LoadingUntilAllResolved ==
  \A f \in 1..Len(flows) :
    LET fl == flows[f]
        n == Len(fl.boxes)
        resolved == {i \in 1..n : fl.resps[i] # NoChildResponse}
    IN /\ fl.pc \in {"join", "fandone"}
          => /\ LatestIs(fl.img, fl.cur.id, "loading")
             /\ Last(Hist(fl.img, fl.cur.id)).data = ItemsData(<<>>)
             /\ fl.fpend \cup resolved = 1..n
             /\ fl.fpend \cap resolved = {}
             /\ inflight[fl.img] = Cardinality(fl.fpend)
       /\ fl.pc = "join" => fl.fpend # {}
       /\ fl.pc = "fandone" => fl.fpend = {}
       /\ (fl.pc = "fan" /\ fl.ran # <<>> /\ LatestIs(fl.img, Last(fl.ran), "success"))
          => resolved = 1..n

\* C19 witness: two per-object requests in flight together, none resolved,
\* the child loading with an empty array.
C19_Witness ==
  \E f \in 1..Len(flows) :
    /\ flows[f].pc = "join"
    /\ flows[f].fpend = {1, 2}
    /\ inflight[flows[f].img] = 2
    /\ Last(Hist(flows[f].img, flows[f].cur.id)).status = "loading"
    /\ Last(Hist(flows[f].img, flows[f].cur.id)).data = ItemsData(<<>>)

\* C20 (as claimed): an attempt has exactly one request outstanding while it
\* waits for the model and none once it has ended, and no operation issues a
\* request for a prompt and image after an attempt the same operation made for
\* them has ended in error.
C20_NoRetry ==
  /\ \A f \in 1..Len(flows) :
       /\ flows[f].pc = "fetch" => inflight[flows[f].img] = 1
       /\ flows[f].pc = "ret" => inflight[flows[f].img] = 0
  /\ \A img \in ImageIds : \A pid \in PromptIds :
       \A i, j \in 1..Len(Hist(img, pid)) :
         (i < j /\ Hist(img, pid)[i].att = Hist(img, pid)[j].att)
           => Hist(img, pid)[i].status # "error"

\* the prompt reached from id by following parentId k times (NoId: none)
RECURSIVE AncestorAt(_, _, _)
AncestorAt(ps, id, k) ==
  IF k = 0 \/ id = NoId THEN id
  ELSE AncestorAt(ps, FindPrompt(ps, id).parentId, k - 1)

\* every parentId names a prompt of the list and no prompt is its own ancestor
IsForest(ps) ==
  \A p \in Range(ps) :
    /\ p.parentId # NoId => \E q \in Range(ps) : q.id = p.parentId
    /\ AncestorAt(ps, p.id, Len(ps) + 1) = NoId

\* C21 (as claimed): after any sequence of addPrompt, deletePrompt and
\* dropPrompt on a forest, every parentId that is set is the id of a prompt of
\* the list and the parent relation has no cycle.
C21_ForestKept == IsForest(prompts)

\* the positions of ps that hold a prompt with an id in ids
PositionsOf(ps, ids) == {i \in 1..Len(ps) : ps[i].id \in ids}

\* ps holds the prompts with an id in ids as one block that begins with the
\* prompt d and is followed at once by the prompt t
BlockBefore(ps, ids, d, t) ==
  LET pos == PositionsOf(ps, ids)
      first == FindIndex(ps, d)
  IN /\ pos = first..(first + Cardinality(ids) - 1)
     /\ first + Cardinality(ids) <= Len(ps)
     /\ ps[first + Cardinality(ids)].id = t

\* C22 (as claimed): dropPrompt(d, t) with d top-level and t outside d's
\* subtree leaves d and its whole subtree as one block immediately before t,
\* keeps the order of the other prompts and keeps every prompt as it was; with
\* d a child, or t not in the list, the list is unchanged.
C22_DropMovesSubtree ==
  [][\A d \in Range(EditorIds) : \A t \in Range(EditorIds) :
       DropPrompt(d, t) =>
         LET dragged == FindPrompt(prompts, d)
             subtree == {d} \cup Descendants(prompts, d)
         IN /\ (dragged # NoPrompt /\ dragged.parentId = NoId
                  /\ FindPrompt(prompts, t) # NoPrompt /\ t \notin subtree)
               => /\ BlockBefore(prompts', subtree, d, t)
                  /\ Without(prompts', subtree) = Without(prompts, subtree)
                  /\ Len(prompts') = Len(prompts)
                  /\ Range(prompts') = Range(prompts)
            /\ ((dragged # NoPrompt /\ dragged.parentId # NoId)
                  \/ FindPrompt(prompts, t) = NoPrompt)
               => prompts' = prompts]_vars

\* C23 (as claimed): a deletePrompt that takes effect leaves no result history,
\* for any image, of the deleted prompt or of any of its transitive
\* descendants.
C23_DeleteClearsDescendants ==
  [][\A id \in PromptIds : \A confirmed \in BOOLEAN :
       DeletePrompt(id, confirmed) =>
         \A img \in ImageIds : \A pid \in {id} \cup Descendants(prompts, id) :
           results'[img][pid] = <<>>]_vars

\* a later attempt of the pair of flow f has started
Superseded(f) ==
  \E g \in 1..Len(flows) :
    /\ flows[g].img = flows[f].img /\ flows[g].cur.id = flows[f].cur.id
    /\ flows[g].ctl > flows[f].ctl

\* C24 (as claimed): the request of an attempt in flight is aborted only by a
\* later attempt of its own pair, and a step of an attempt (its start, its
\* request, its end or its abort) changes the history of no other pair.
C24_PairsIsolated ==
  /\ \A f \in 1..Len(flows) :
       (flows[f].pc \in {"b64", "fetch"} /\ flows[f].ctl \in aborted) => Superseded(f)
  /\ \A f \in 1..Len(flows) : \A img \in ImageIds : \A pid \in PromptIds :
       (flows[f].pc \in {"b64", "fetch", "ret"} /\ <<img, pid>> # <<flows[f].img, flows[f].cur.id>>
          /\ \A g \in 1..Len(flows) : <<img, pid>> # <<flows[g].img, flows[g].cur.id>>)
       => Hist(img, pid) = <<>>

\* C25 (as claimed): an entry of a history that has reached success or error
\* stays at its place with its status and data in every later step, except a
\* step of runOne that clears the history of a descendant of the prompt it
\* re-runs.
C25_TerminalEntriesKept ==
  [][\A img \in ImageIds : \A pid \in PromptIds : \A i \in 1..Len(results[img][pid]) :
       (/\ IsTerminal(results[img][pid][i])
        /\ ~(\E p \in Range(prompts) :
               RunSingleAnalysisFlow(p) /\ pid \in Descendants(prompts, p.id)))
       => /\ i <= Len(results'[img][pid])
          /\ results'[img][pid][i].status = results[img][pid][i].status
          /\ results'[img][pid][i].data = results[img][pid][i].data]_vars

\* C26: the step that invokes runOne(p) empties, for the selected image, the
\* history of every transitive descendant of p, leaves every other history of
\* every image as it was, and issues no request.
C26_RunOneClearsDescendants ==
  [][\A p \in Range(prompts) :
       RunSingleAnalysisFlow(p) =>
         /\ nreq' = nreq
         /\ \A img \in ImageIds : \A pid \in PromptIds :
              results'[img][pid] =
                IF img = selectedImageId /\ pid \in Descendants(prompts, p.id)
                THEN <<>> ELSE results[img][pid]]_vars

\* C26 witness: p3 of TreeChain was run and answered on i1; runOne(p1) on i1
\* has emptied the history of the grandchild p3 and awaits p1's response.
C26_Witness ==
  /\ Len(flows) = 2
  /\ flows[1].top.id = "p3" /\ flows[1].img = "i1" /\ flows[1].res.status = "success"
  /\ flows[2].kind = "one" /\ flows[2].top.id = "p1" /\ flows[2].img = "i1"
  /\ flows[2].cur.id = "p1" /\ flows[2].pc = "fetch"
  /\ prompts = TreeChain
  /\ Hist("i1", "p3") = <<>>

\* the position of the prompt with this id in ps (0: none)
PositionIn(ps, id) == FindIndex(ps, id)

\* the top-level prompts a batch run is running or has still to run, in the
\* order in which it runs them
TopLevelAhead(fl) ==
  (IF fl.pc \in {"task", "itask", "img", "done"} \/ ~IsTopLevel(fl.top) THEN <<>> ELSE <<fl.top>>)
    \o SelectSeq(fl.tasks, IsTopLevel)

\* C27 (as claimed): a batch run starts its top-level prompts in the order of
\* the prompt list, and when it is about to start the next one no request of
\* the run is in flight.
C27_OneAtATimeInOrder ==
  \A f \in 1..Len(flows) :
    flows[f].kind \in {"pending", "all"}
      => /\ \A i, j \in 1..Len(TopLevelAhead(flows[f])) :
              i < j => PositionIn(prompts, TopLevelAhead(flows[f])[i].id)
                         < PositionIn(prompts, TopLevelAhead(flows[f])[j].id)
         /\ flows[f].pc \in {"task", "itask", "img"}
              => \A img \in ImageIds : inflight[img] = 0

\* the images a batch run works on
ImagesOfRun(fl) == IF fl.kind = "all" THEN Range(images) ELSE {fl.img}

\* the run of flow f has made an attempt for the pair
ExecutedBy(f, img, pid) == \E i \in 1..Len(Hist(img, pid)) : Hist(img, pid)[i].att = f

\* C28 (as claimed): a batch run that has ended has executed, for each of its
\* images, every top-level prompt that had no history or a latest result other
\* than success when the run was invoked, and no top-level prompt that had a
\* latest result success and no child without history.
C28_RunsWhatIsNotSuccessful ==
  \A f \in 1..Len(flows) :
    (flows[f].kind \in {"pending", "all"} /\ flows[f].pc = "done" /\ f = Len(flows))
      => \A img \in ImagesOfRun(flows[f]) : \A p \in Range(prompts) :
           LET before == flows[f].snap[img][p.id]
               pendingChild == \E c \in DirectChildren(prompts, p.id) :
                                 flows[f].snap[img][c.id] = <<>>
           IN IsTopLevel(p)
              => /\ (before = <<>> \/ Last(before).status # "success")
                      => ExecutedBy(f, img, p.id)
                 /\ (before # <<>> /\ Last(before).status = "success" /\ ~pendingChild)
                      => ~ExecutedBy(f, img, p.id)

\* C29 (as claimed): whenever no operation is running, runPendingForImage and
\* runForAllImages would do the same on the selected image: they would run
\* the same prompts in the same order, and running them would begin from the
\* same histories (the run of a pending prompt clears nothing).
C29_SamePendingAlgorithm ==
  (AllDone /\ selectedImageId # NoId)
    => /\ TasksToRun(prompts, results[selectedImageId])
            = PromptsToAnalyze(prompts, results[selectedImageId])
       /\ \A t \in Range(TasksToRun(prompts, results[selectedImageId])) :
            ClearDescendants(results, prompts, selectedImageId, t.id) = results

\* C30 (as claimed): the messages of a follow-up request begin with the
\* multimodal user message, replay every prior turn in order, end with the
\* follow-up question as a user message, and alternate user and assistant.
C30_FollowUpAlternates ==
  \A f \in 1..Len(flows) :
    (flows[f].fu /\ flows[f].pc = "fetch")
      => LET m == RequestMessages(f)
             conv == flows[f].conv
         IN /\ m[1].role = "user" /\ m[1].image
            /\ Len(m) = 2 * Len(conv) + 1
            /\ \A i \in 1..(Len(m) - 1) : m[i].role # m[i + 1].role
            /\ Last(m).role = "user" /\ ~Last(m).image
            /\ Last(m).content = FollowUpQuestion(f)
            /\ \A k \in 1..Len(conv) :
                 /\ m[2 * k].role = "assistant" /\ m[2 * k].content = conv[k].a
                 /\ k > 1 => m[2 * k - 1].content = conv[k].q

\* C31: while the decoder skips the think block nothing is yielded; the delta
\* that completes the closing marker in the buffer (the marker may be cut
\* across deltas) moves the decoder to 'streaming', and what is yielded at that
\* step is the text after the marker without its leading white space; a
\* stream that ends before the marker has yielded nothing.
C31_ThinkSkipped ==
  /\ [](parsingState = "skipping_think" => emitted = <<>>)
  /\ [][(parsingState = "skipping_think" /\ nread' = nread + 1) =>
          LET a == accumulatedContent \o deltas[nread + 1]
          IN IF Includes(a, CloseTag)
             THEN /\ parsingState' = "streaming"
                  /\ accumulatedContent' = <<>>
                  /\ Len(emitted') <= 1
                  /\ Concat(emitted') = TrimStart(Answer(a))
             ELSE /\ parsingState' = "skipping_think"
                  /\ emitted' = <<>>]_vars

\* the closing marker was cut across two deltas, and the answer has been yielded
C31_Witness ==
  /\ parsingState = "streaming"
  /\ nread >= 2
  /\ StartsWith(deltas[1], OpenTag)
  /\ \A k \in 1..Len(deltas) : ~Includes(deltas[k], CloseTag)
  /\ Includes(Concat(deltas), CloseTag)
  /\ emitted # <<>>
  /\ Concat(emitted) = <<"H", "i">>

\* api.ts:43-45  stripThinking: the first "<think>...</think>" span (up to the
\* first closing marker after the opening one) and the white space after it
\* are removed, then the text is trimmed
StripThinking(rawContent) ==
  LET open == IndexOf(rawContent, OpenTag)
      rest == SubstringFrom(rawContent, open - 1 + Len(OpenTag))
      close == IndexOf(rest, CloseTag)
  IN IF open = 0 \/ close = 0 THEN Trim(rawContent)
     ELSE Trim(SubSeq(rawContent, 1, open - 1)
                 \o TrimStart(SubstringFrom(rest, close - 1 + Len(CloseTag))))

\* store.ts:601-623  finalResultDataTrimmed of the streaming path
FinalResultDataTrimmed == Trim(Concat(emitted))

\* C32 (as claimed): once a response has been read to its end, the answer of
\* the streaming path equals stripThinking applied to the whole response
\* text, however the text was cut into deltas and wherever its think block is.
C32_StreamEqualsStrip ==
  nread = Len(deltas) => FinalResultDataTrimmed = StripThinking(Concat(deltas))

\* C33: the decoder's state moves only initial -> skipping_think,
\* initial -> streaming or skipping_think -> streaming; in 'streaming' it stays
\* there and yields every delta as it is; in 'initial', where only white space
\* has been accumulated, nothing has been yielded.
C33_DecoderStates ==
  /\ [](parsingState = "initial" =>
          (Trim(accumulatedContent) = <<>> /\ emitted = <<>>))
  /\ [][/\ <<parsingState, parsingState'>> \in
             {<<"initial", "initial">>, <<"initial", "skipping_think">>,
              <<"initial", "streaming">>, <<"skipping_think", "skipping_think">>,
              <<"skipping_think", "streaming">>, <<"streaming", "streaming">>}
        /\ (parsingState = "streaming" /\ nread' = nread + 1) =>
             emitted' = Append(emitted, deltas[nread + 1])]_vars

\* a blank first delta kept the decoder in 'initial'; two deltas were yielded
\* since, the last one in 'streaming'
C33_Witness ==
  /\ deltas[1] = <<" ">>
  /\ nread = 3
  /\ parsingState = "streaming"
  /\ emitted = <<deltas[1] \o deltas[2], deltas[3]>>

\* C34 (as claimed): every request in flight for a runPendingAnalysis
\* invocation, and every history entry the invocation wrote, is for the image
\* that was selected when it was invoked.
C34_PendingKeepsImage ==
  \A f \in 1..Len(flows) :
    flows[f].kind = "pending" =>
      /\ flows[f].pc = "fetch" => flows[f].img = flows[f].sel
      /\ \A i \in ImageIds : \A pid \in PromptIds :
           \A k \in 1..Len(results[i][pid]) :
             results[i][pid][k].att = f => i = flows[f].sel

\* C35 (as claimed): every stored (non-empty) result history belongs to an
\* image of the image list and to a prompt of the prompt list.
C35_HistoriesOfPresent ==
  \A i \in ImageIds : \A pid \in PromptIds :
    results[i][pid] # <<>> =>
      (i \in Range(images) /\ \E k \in 1..Len(prompts) : prompts[k].id = pid)

\* the parentBox values of a fan-out result, in order
ParentBoxes(items) == [i \in 1..Len(items) |-> items[i].parentBox]

\* C36 (as claimed): whenever the latest result of a child of a detection
\* prompt is a successful fan-out result, the parentBox values of its entries
\* are the detections of the parent's latest result for the image, in order.
C36_ChildMatchesParent ==
  \A img \in ImageIds : \A k \in 1..Len(prompts) :
    LET c == prompts[k]
        parent == FindPrompt(prompts, c.parentId)
        h == Hist(img, c.id)
    IN (/\ c.parentId # NoId /\ parent # NoPrompt /\ parent.type = BoundingBox
        /\ h # <<>> /\ Last(h).status = "success" /\ Last(h).data.kind = "items")
       => /\ Hist(img, parent.id) # <<>>
          /\ Last(Hist(img, parent.id)).data.kind = "boxes"
          /\ ParentBoxes(Last(h).data.items) = Last(Hist(img, parent.id)).data.boxes

\* C37 (as claimed): whenever every operation has ended and no request is in
\* flight, the registry abortControllers has no entry, runningSinglePrompts is
\* empty and the latest entry of every stored history is success or error.
C37_IdleIsClean ==
  (AllDone /\ \A i \in ImageIds : inflight[i] = 0)
    => /\ \A k \in Keys : abortControllers[k] = 0
       /\ runningSinglePrompts = {}
       /\ \A i \in ImageIds : \A pid \in PromptIds :
            Hist(i, pid) # <<>> => Last(Hist(i, pid)).status \in {"success", "error"}

\* the batch runs (runPendingAnalysis, runAllImagesAnalysis) among the flows
IsBatchRun(f) == f <= Len(flows) /\ flows[f].kind \in {"pending", "all"}

C39_SettingsAndPromptsKept ==
  /\ [][/\ prompts' = prompts
        /\ settings' # settings =>
             (calls' = calls + 1 /\ flows' = flows /\ results' = results)
        /\ \A f \in 1..Len(flows) :
             /\ (flows[f].pc = "rsp" /\ flows'[f].pc \in {"b64", "issue"}) =>
                  flows'[f].cfg = settings
             /\ (flows[f].pc = "hpc" /\ flows'[f].pc # "hpc") =>
                  flows'[f].hcfg = settings]_vars
  /\ [](\A f \in 1..Len(flows) :
          /\ flows[f].pc = "fetch" => flows[f].req = flows[f].cfg
          /\ flows[f].pc = "join" => flows[f].req = flows[f].hcfg)

\* a request is in flight with the settings read at the start of its attempt,
\* and other settings have been saved since
C39_Witness ==
  \E f \in 1..Len(flows) :
    /\ flows[f].pc = "fetch"
    /\ flows[f].req = DefaultSettings
    /\ settings = SavedSettings

====
